---- MODULE Spec2Model ----
(***************************************************************************)
(* Process lifecycle and liveness tracking of the fusion CLI               *)
(* (src/src/core/process.rs, src/src/core/services.rs).                    *)
(*                                                                         *)
(* Strings whose content the program inspects (command lines, file         *)
(* contents) are sequences of one-character strings, so that join,         *)
(* contains, trim, to_string and parse are computed as the code computes   *)
(* them.  File names are only used as keys and stay TLA+ strings.          *)
(***************************************************************************)
EXTENDS Integers, Sequences, FiniteSets, TLC

\* Bound: the pids of the modelled process table are 1..MaxPid.
MaxPid == 2

\* Bound: the child writes at most this many characters to a log file.
MaxLog == 1

\* Bound: the number of calls a scenario records.
MaxTrace == 4

\* Bound: the longest configured readiness timeout, in seconds.
MaxTimeout == 3

I32Max == 2147483647
I32Min == (-2147483647) - 1

(***************************************************************************)
(* String helpers (Rust std: to_string, parse::<i32>, trim, join,          *)
(* contains).                                                              *)
(***************************************************************************)
Digit == <<"0", "1", "2", "3", "4", "5", "6", "7", "8", "9">>

DigitChars == {Digit[i] : i \in 1..10}

DigitVal(c) == (CHOOSE i \in 1..10 : Digit[i] = c) - 1

Whitespace == {" ", "\n", "\t", "\r"}

RECURSIVE digits(_)
digits(n) == IF n < 10 THEN <<Digit[n + 1]>>
             ELSE digits(n \div 10) \o <<Digit[(n % 10) + 1]>>

\* Display of an integer ("{pid}", port.to_string()).
to_string(n) ==
    IF n >= 0 THEN digits(n)
    ELSE LET m == -(n + 1)
             hi == (m \div 10) + (IF m % 10 = 9 THEN 1 ELSE 0)
             lo == ((m % 10) + 1) % 10
         IN <<"-">> \o (IF hi = 0 THEN <<>> ELSE digits(hi)) \o <<Digit[lo + 1]>>

\* Accumulates the digits as a non-positive number with checked
\* arithmetic; 1 stands for overflow.
RECURSIVE neg_value(_, _)
neg_value(s, acc) ==
    IF acc = 1 \/ Len(s) = 0 THEN acc
    ELSE LET d == DigitVal(Head(s))
         IN IF acc > -214748364 \/ (acc = -214748364 /\ d <= 8)
            THEN neg_value(Tail(s), (acc * 10) - d)
            ELSE 1

None == [tag |-> "None", val |-> 0]

Some(v) == [tag |-> "Some", val |-> v]

ParseErr == [tag |-> "Err", val |-> 0]

\* str::parse::<i32>: optional sign, at least one digit, range checked.
parse_i32(s) ==
    LET signed == Len(s) > 0 /\ s[1] \in {"+", "-"}
        body == IF signed THEN Tail(s) ELSE s
        wellFormed == Len(body) > 0 /\ \A i \in 1..Len(body) : body[i] \in DigitChars
        nv == neg_value(body, 0)
    IN IF ~wellFormed \/ nv = 1 THEN ParseErr
       ELSE IF Len(s) > 0 /\ s[1] = "-" THEN Some(nv)
       ELSE IF nv = I32Min THEN ParseErr
       ELSE Some(-nv)

U16Max == 65535

\* The value of a digit string, U16Max + 1 once it exceeds U16Max.
RECURSIVE nat_value(_, _)
nat_value(s, acc) ==
    IF Len(s) = 0 THEN acc
    ELSE IF (acc * 10) + DigitVal(Head(s)) > U16Max THEN U16Max + 1
    ELSE nat_value(Tail(s), (acc * 10) + DigitVal(Head(s)))

\* str::parse::<u16>: optional plus sign, at least one digit, range checked.
parse_u16(s) ==
    LET body == IF Len(s) > 0 /\ s[1] = "+" THEN Tail(s) ELSE s
        wellFormed == Len(body) > 0 /\ \A i \in 1..Len(body) : body[i] \in DigitChars
    IN IF ~wellFormed THEN ParseErr
       ELSE IF nat_value(body, 0) > U16Max THEN ParseErr
       ELSE Some(nat_value(body, 0))

\* The index of the first occurrence of character c in s, 0 if there is none.
find(s, c) ==
    LET hits == {i \in 1..Len(s) : s[i] = c}
    IN IF hits = {} THEN 0 ELSE CHOOSE i \in hits : \A j \in hits : i <= j

\* str::lines: the text between line feeds, without a trailing carriage
\* return; a final line feed ends the last line.
lines(s) ==
    LET stops == {i \in 1..Len(s) : s[i] = "\n"} \cup {Len(s) + 1}
        starts == {st \in {1} \cup {i + 1 : i \in stops} : st <= Len(s)}
        nth(k) == CHOOSE st \in starts : Cardinality({x \in starts : x < st}) = k - 1
        end(st) == (CHOOSE i \in stops : i >= st /\ \A j \in stops : j >= st => i <= j) - 1
        strip(l) == IF Len(l) > 0 /\ l[Len(l)] = "\r" THEN SubSeq(l, 1, Len(l) - 1) ELSE l
    IN [k \in 1..Cardinality(starts) |-> strip(SubSeq(s, nth(k), end(nth(k))))]

RECURSIVE trim_start(_)
trim_start(s) == IF Len(s) > 0 /\ Head(s) \in Whitespace THEN trim_start(Tail(s)) ELSE s

RECURSIVE trim_end(_)
trim_end(s) == IF Len(s) > 0 /\ s[Len(s)] \in Whitespace
               THEN trim_end(SubSeq(s, 1, Len(s) - 1)) ELSE s

trim(s) == trim_end(trim_start(s))

\* [String].join(" ")
RECURSIVE join(_)
join(args) == IF Len(args) = 0 THEN <<>>
              ELSE IF Len(args) = 1 THEN args[1]
              ELSE args[1] \o <<" ">> \o join(Tail(args))

\* str::contains: needle occurs as a contiguous substring of hay.
contains(hay, needle) ==
    \E i \in 0..(Len(hay) - Len(needle)) : SubSeq(hay, i + 1, i + Len(needle)) = needle

starts_with(s, c) == Len(s) > 0 /\ s[1] = c

ends_with(s, c) == Len(s) > 0 /\ s[Len(s)] = c

(***************************************************************************)
(* Service descriptors (ManagedService) and the configurations they are    *)
(* built from.                                                             *)
(***************************************************************************)
Services == {"ollama", "mlx"}

\* Input hosts and model names of the configuration.
HostA == <<"h">>

ModelM == <<"m">>

OllamaCfgs == {[host |-> HostA, port |-> 11434]}

MlxCfgs == {[host |-> HostA, port |-> 8080, model |-> ModelM]}

format_host_port(host, port) ==
    IF contains(host, <<":">>) /\ ~starts_with(host, "[") /\ ~ends_with(host, "]")
    THEN <<"[">> \o host \o <<"]", ":">> \o to_string(port)
    ELSE host \o <<":">> \o to_string(port)

create_ollama_service(cfg) ==
    [name |-> "ollama",
     host |-> cfg.host,
     port |-> cfg.port,
     command |-> << <<"o","l","l","a","m","a">>, <<"s","e","r","v","e">> >>,
     log_filename |-> "ollama.log",
     pid_filename |-> "ollama.pid",
     config_filename |-> "ollama.config",
     env |-> format_host_port(cfg.host, cfg.port)]

create_mlx_service(cfg) ==
    [name |-> "mlx",
     host |-> cfg.host,
     port |-> cfg.port,
     command |-> << <<"m","l","x","_","l","m",".","s","e","r","v","e","r">>,
                    <<"-","-","m","o","d","e","l">>, cfg.model,
                    <<"-","-","h","o","s","t">>, cfg.host,
                    <<"-","-","p","o","r","t">>, to_string(cfg.port) >>,
     log_filename |-> "mlx.log",
     pid_filename |-> "mlx.pid",
     config_filename |-> "mlx.config",
     env |-> <<>>]

\* A second host and a port other than the defaults.
HostB == <<"g">>

OtherPort == 5055

\* The contents the config file can have when a command loads it: the
\* defaults, and another host and port.
Configs ==
    {[ollama_server |-> [host |-> HostA, port |-> 11434],
      mlx_server |-> [host |-> HostA, port |-> 8080, model |-> ModelM]],
     [ollama_server |-> [host |-> HostB, port |-> OtherPort],
      mlx_server |-> [host |-> HostB, port |-> OtherPort, model |-> ModelM]]}

\* The descriptors the lifecycle operations are called with.
Descriptors == {create_ollama_service(c) : c \in OllamaCfgs}
                   \cup {create_mlx_service(c) : c \in MlxCfgs}

Pids == 1..MaxPid

(***************************************************************************)
(* State.                                                                  *)
(*   system : the OS process table as sysinfo reports it after a refresh   *)
(*   fs     : the files of the state directory                             *)
(*   last   : the call that has just completed: its descriptor, outcome,   *)
(*            the driver and file operations it performed, and the         *)
(*            operation of the call it followed directly.  It is cleared   *)
(*            as soon as anything but a call happens, so it describes      *)
(*            calls that follow each other without interference.           *)
(*   inflight : the invocations of the tool that run at the same time,     *)
(*            each with its position in its handler and its local values   *)
(*   trace  : the calls made so far and their outcomes, in the behaviours  *)
(*            that follow a scenario from its beginning                    *)
(***************************************************************************)
VARIABLES system, fs, last, inflight, trace

vars == <<system, fs, last, inflight, trace>>

\* owned: the process belongs to the user running the tool, so that a
\* signal sent to it is delivered (kill_with reports true).
NoProc == [live |-> FALSE, cmd |-> <<>>, name |-> <<>>, owned |-> FALSE]

Proc(cmd, name, owned) == [live |-> TRUE, cmd |-> cmd, name |-> name, owned |-> owned]

NoFile == [exists |-> FALSE, data |-> <<>>]

File(data) == [exists |-> TRUE, data |-> data]

\* A world is the part of the state a handler reads and changes, together
\* with the trace of the operations it performed.
World(sys, files) == [system |-> sys, fs |-> files, events |-> <<>>]

Ev(kind, pid, force) == [ev |-> kind, pid |-> pid, force |-> force]

Log(w, kind, pid, force) == [w EXCEPT !.events = Append(@, Ev(kind, pid, force))]

(***************************************************************************)
(* SystemProcessDriver.                                                    *)
(***************************************************************************)
expected_signature(service) == join(service.command)

process_signature(process) ==
    IF Len(process.cmd) = 0 THEN process.name ELSE join(process.cmd)

\* Faulty variant: every process matches.
matches_signature_any(expected, process) == TRUE

matches_signature(expected, process) == contains(process_signature(process), expected)

\* system.process(Pid::from_u32(pid as u32)): a negative or huge pid names
\* no entry of the table.
process(sys, pid) == IF pid \in DOMAIN sys THEN sys[pid] ELSE NoProc

\* Faulty variant: liveness of the pid alone, whatever its command line.
is_running_any_command(sys, service, pid) == process(sys, pid).live

is_running(sys, service, pid) ==
    LET p == process(sys, pid)
    IN p.live /\ matches_signature(expected_signature(service), p)

MatchingPids(sys, service) ==
    {pid \in DOMAIN sys : sys[pid].live
                            /\ matches_signature(expected_signature(service), sys[pid])}

\* The possible results: find() over an unordered map returns any match.
is_running_by_signature(sys, service) ==
    IF MatchingPids(sys, service) = {} THEN {None}
    ELSE {Some(pid) : pid \in MatchingPids(sys, service)}

\* kill_with on the pids of targets: the signal is delivered to those the
\* user owns; of these, the ones in exiting are gone before the call
\* returns, the others are still in the table.  Returns the world and the
\* pids the signal was delivered to.
kill_with(w, targets, force, exiting) ==
    LET hit == {pid \in targets : w.system[pid].owned}
        sys2 == [pid \in DOMAIN w.system |->
                   IF pid \in hit \cap exiting THEN NoProc ELSE w.system[pid]]
    IN [w |-> [w EXCEPT !.system = sys2], delivered |-> hit]

\* Faulty variant: signals the pid without comparing its signature.
signal_unchecked(w, service, pid, force, exiting) ==
    LET p == process(w.system, pid)
        w1 == Log(w, "signal", pid, force)
    IN IF p.live
       THEN LET k == kill_with(w1, {pid}, force, exiting)
            IN [w |-> IF pid \in k.delivered
                      THEN Log(k.w, "kill", pid, force) ELSE k.w,
                val |-> pid \in k.delivered]
       ELSE [w |-> w1, val |-> FALSE]

\* Faulty variant: reports a signal that could not be delivered as delivered.
signal_always_true(w, service, pid, force, exiting) ==
    LET p == process(w.system, pid)
        w1 == Log(w, "signal", pid, force)
    IN IF p.live
       THEN IF ~matches_signature(expected_signature(service), p)
            THEN [w |-> w1, val |-> FALSE]
            ELSE LET k == kill_with(w1, {pid}, force, exiting)
                 IN [w |-> IF pid \in k.delivered
                           THEN Log(k.w, "kill", pid, force) ELSE k.w,
                     val |-> TRUE]
       ELSE [w |-> w1, val |-> FALSE]

\* Faulty variant: sends the graceful signal whatever force says.
signal_term_only(w, service, pid, force, exiting) ==
    LET p == process(w.system, pid)
        w1 == Log(w, "signal", pid, FALSE)
    IN IF p.live
       THEN IF ~matches_signature(expected_signature(service), p)
            THEN [w |-> w1, val |-> FALSE]
            ELSE LET k == kill_with(w1, {pid}, FALSE, exiting)
                 IN [w |-> IF pid \in k.delivered
                           THEN Log(k.w, "kill", pid, FALSE) ELSE k.w,
                     val |-> pid \in k.delivered]
       ELSE [w |-> w1, val |-> FALSE]

signal(w, service, pid, force, exiting) ==
    LET p == process(w.system, pid)
        w1 == Log(w, "signal", pid, force)
    IN IF p.live
       THEN IF ~matches_signature(expected_signature(service), p)
            THEN [w |-> w1, val |-> FALSE]
            ELSE LET k == kill_with(w1, {pid}, force, exiting)
                 IN [w |-> IF pid \in k.delivered
                           THEN Log(k.w, "kill", pid, force) ELSE k.w,
                     val |-> pid \in k.delivered]
       ELSE [w |-> w1, val |-> FALSE]

RECURSIVE LogKills(_, _, _)
LogKills(w, pids, force) ==
    IF pids = {} THEN w
    ELSE LET pid == CHOOSE x \in pids : \A y \in pids : x <= y
         IN LogKills(Log(w, "kill", pid, force), pids \ {pid}, force)

\* Faulty variant: counts the matching processes, signaled or not.
kill_by_signature_counts_matches(w, service, force, exiting) ==
    LET w1 == Log(w, "kill_by_signature", 0, force)
        k == kill_with(w1, MatchingPids(w.system, service), force, exiting)
    IN [w |-> LogKills(k.w, k.delivered, force),
        val |-> Cardinality(MatchingPids(w.system, service))]

\* Faulty variant: the sweep stops at the first matching process.
kill_by_signature_first_match(w, service, force, exiting) ==
    LET w1 == Log(w, "kill_by_signature", 0, force)
        m == MatchingPids(w.system, service)
        first == {pid \in m : \A other \in m : pid <= other}
        k == kill_with(w1, first, force, exiting)
    IN [w |-> LogKills(k.w, k.delivered, force), val |-> Cardinality(k.delivered)]

kill_by_signature(w, service, force, exiting) ==
    LET w1 == Log(w, "kill_by_signature", 0, force)
        k == kill_with(w1, MatchingPids(w.system, service), force, exiting)
    IN [w |-> LogKills(k.w, k.delivered, force), val |-> Cardinality(k.delivered)]

\* pid = 0 stands for a spawn the OS refuses.  Both log handles are opened
\* (create, append) before the command is run.
spawn(w, service, log_path, pid) ==
    LET fs1 == IF w.fs[log_path].exists THEN w.fs
               ELSE [w.fs EXCEPT ![log_path] = File(<<>>)]
        w1 == Log([w EXCEPT !.fs = fs1], "spawn", pid, FALSE)
    IN IF Len(service.command) = 0 \/ pid = 0
       THEN [w |-> w1, val |-> ParseErr]
       ELSE [w |-> [w1 EXCEPT !.system[pid] =
                                  Proc(service.command, service.command[1], TRUE)],
             val |-> Some(pid)]

(***************************************************************************)
(* State store.                                                            *)
(***************************************************************************)
\* Faulty variant: contents that do not parse are taken as no record.
read_pid_ignores_malformed(files, service) ==
    LET f == files[service.pid_filename]
        r == parse_i32(trim(f.data))
    IN IF ~f.exists \/ Len(trim(f.data)) = 0 \/ r.tag = "Err" THEN None ELSE r

\* Faulty variant: the contents are parsed without the test for empty, so
\* a blank file is an invalid pid value.
read_pid_parses_blank(files, service) ==
    LET f == files[service.pid_filename]
    IN IF ~f.exists THEN None ELSE parse_i32(trim(f.data))

read_pid(files, service) ==
    LET f == files[service.pid_filename]
    IN IF ~f.exists THEN None
       ELSE IF Len(trim(f.data)) = 0 THEN None
       ELSE parse_i32(trim(f.data))

\* Faulty variant: the PID file is not written.
write_pid_lost(w, service, pid) == Log(w, "write_pid", pid, FALSE)

\* Faulty variant: the file is opened without truncate, so what the old
\* contents had beyond the new ones stays.
write_pid_untruncated(w, service, pid) ==
    LET old == w.fs[service.pid_filename].data
        new == to_string(pid) \o <<"\n">>
    IN Log([w EXCEPT !.fs[service.pid_filename] =
                File(new \o SubSeq(old, Len(new) + 1, Len(old)))],
           "write_pid", pid, FALSE)

write_pid(w, service, pid) ==
    Log([w EXCEPT !.fs[service.pid_filename] = File(to_string(pid) \o <<"\n">>)],
        "write_pid", pid, FALSE)

\* Faulty variant: the PID file is left in place.
remove_pid_kept(w, service) == Log(w, "remove_pid", 0, FALSE)

remove_pid(w, service) ==
    Log([w EXCEPT !.fs[service.pid_filename] = NoFile], "remove_pid", 0, FALSE)

\* Faulty variant: the runtime-config record is not written.
write_config_lost(w, service) == Log(w, "write_config", 0, FALSE)

write_config(w, service) ==
    Log([w EXCEPT !.fs[service.config_filename] =
             File(<<"h","o","s","t","=">> \o service.host \o <<"\n">>
                  \o <<"p","o","r","t","=">> \o to_string(service.port) \o <<"\n">>)],
        "write_config", 0, FALSE)

NoConfig == [tag |-> "None", val |-> [host |-> <<>>, port |-> 0]]

ConfigErr == [tag |-> "Err", val |-> [host |-> <<>>, port |-> 0]]

\* Faulty variant: the line is split at its last '='.
config_entry_split_last(raw) ==
    LET line == trim(raw)
        hits == {i \in 1..Len(line) : line[i] = "="}
        eq == IF hits = {} THEN 0 ELSE CHOOSE i \in hits : \A j \in hits : j <= i
    IN IF Len(line) = 0 \/ eq = 0
       THEN [found |-> FALSE, key |-> <<>>, value |-> <<>>]
       ELSE [found |-> TRUE,
             key |-> trim(SubSeq(line, 1, eq - 1)),
             value |-> trim(SubSeq(line, eq + 1, Len(line)))]

\* line.split_once('=') with both parts trimmed; found is false for a
\* blank line and for a line without '='.
config_entry(raw) ==
    LET line == trim(raw)
        eq == find(line, "=")
    IN IF Len(line) = 0 \/ eq = 0
       THEN [found |-> FALSE, key |-> <<>>, value |-> <<>>]
       ELSE [found |-> TRUE,
             key |-> trim(SubSeq(line, 1, eq - 1)),
             value |-> trim(SubSeq(line, eq + 1, Len(line)))]

\* The loop over the lines keeps the last host and the last port it
\* meets and returns an error at a port value that is not a u16.
read_config(files, service) ==
    LET f == files[service.config_filename]
        ls == lines(f.data)
        keyed(key) == {k \in 1..Len(ls) :
                          config_entry(ls[k]).found /\ config_entry(ls[k]).key = key}
        hosts == keyed(<<"h","o","s","t">>)
        ports == keyed(<<"p","o","r","t">>)
        final(ks) == CHOOSE k \in ks : \A j \in ks : j <= k
    IN IF ~f.exists THEN NoConfig
       ELSE IF \E k \in ports : parse_u16(config_entry(ls[k]).value).tag = "Err"
       THEN ConfigErr
       ELSE IF hosts # {} /\ ports # {}
       THEN Some([host |-> config_entry(ls[final(hosts)]).value,
                  port |-> parse_u16(config_entry(ls[final(ports)]).value).val])
       ELSE NoConfig

(***************************************************************************)
(* Descriptors rebuilt from the runtime-config record (services.rs).       *)
(***************************************************************************)
\* command.iter().position(|arg| arg == flag), 0 if there is none.
position(command, flag) ==
    LET hits == {i \in 1..Len(command) : command[i] = flag}
    IN IF hits = {} THEN 0 ELSE CHOOSE i \in hits : \A j \in hits : i <= j

\* The argument after the first occurrence of flag is replaced by value.
set_flag_value(command, flag, value) ==
    LET at == position(command, flag)
    IN IF at # 0 /\ at + 1 <= Len(command)
       THEN [command EXCEPT ![at + 1] = value]
       ELSE command

Loaded(service) == [tag |-> "Ok", val |-> service]

LoadErr(service) == [tag |-> "Err", val |-> service]

load_ollama_service(files, cfg) ==
    LET service == create_ollama_service(cfg)
        rc == read_config(files, service)
    IN IF rc.tag = "Err" THEN LoadErr(service)
       ELSE IF rc.tag = "Some"
       THEN Loaded([service EXCEPT !.host = rc.val.host,
                                   !.port = rc.val.port,
                                   !.env = format_host_port(rc.val.host, rc.val.port)])
       ELSE Loaded(service)

\* Faulty variant: the --port argument keeps the value of the config file.
load_mlx_service_port_kept(files, cfg) ==
    LET service == create_mlx_service(cfg)
        rc == read_config(files, service)
    IN IF rc.tag = "Err" THEN LoadErr(service)
       ELSE IF rc.tag = "Some"
       THEN Loaded([service EXCEPT
                       !.host = rc.val.host,
                       !.port = rc.val.port,
                       !.command = set_flag_value(service.command,
                                                  <<"-","-","h","o","s","t">>, rc.val.host)])
       ELSE Loaded(service)

load_mlx_service(files, cfg) ==
    LET service == create_mlx_service(cfg)
        rc == read_config(files, service)
    IN IF rc.tag = "Err" THEN LoadErr(service)
       ELSE IF rc.tag = "Some"
       THEN Loaded([service EXCEPT
                       !.host = rc.val.host,
                       !.port = rc.val.port,
                       !.command =
                           set_flag_value(
                               set_flag_value(service.command,
                                              <<"-","-","h","o","s","t">>, rc.val.host),
                               <<"-","-","p","o","r","t">>, to_string(rc.val.port))])
       ELSE Loaded(service)

\* service_type is the name of the runtime, "ollama" or "mlx".
service_for_up(cfg, service_type) ==
    IF service_type = "ollama" THEN create_ollama_service(cfg.ollama_server)
    ELSE create_mlx_service(cfg.mlx_server)

service_for_runtime(files, cfg, service_type) ==
    IF service_type = "ollama" THEN load_ollama_service(files, cfg.ollama_server)
    ELSE load_mlx_service(files, cfg.mlx_server)

remove_config(w, service) ==
    Log([w EXCEPT !.fs[service.config_filename] = NoFile], "remove_config", 0, FALSE)

reset_log_file(w, path) ==
    Log([w EXCEPT !.fs[path] = File(<<>>)], "reset_log_file", 0, FALSE)

(***************************************************************************)
(* Outcomes (StartOutcome, StopOutcome, StatusOutcome, AppError).          *)
(***************************************************************************)
Outcome(tag, pid, count, forced, name) ==
    [tag |-> tag, pid |-> pid, count |-> count, forced |-> forced, name |-> name]

Started(pid) == Outcome("Started", pid, 0, FALSE, "")

AlreadyRunning(pid) == Outcome("AlreadyRunning", pid, 0, FALSE, "")

Stopped(pid, forced) == Outcome("Stopped", pid, 0, forced, "")

TerminatedByName(count, forced) == Outcome("TerminatedByName", 0, count, forced, "")

NotRunning == Outcome("NotRunning", 0, 0, FALSE, "")

Running(pid) == Outcome("Running", pid, 0, FALSE, "")

\* AppError::process_error(service.name, ..)
ProcessError(name) == Outcome("ProcessError", 0, 0, FALSE, name)

\* AppError::Io, which an io::Error becomes at a `?`
IoError == Outcome("IoError", 0, 0, FALSE, "")

IsOk(result) == result.tag \notin {"ProcessError", "IoError"}

(***************************************************************************)
(* Lifecycle supervisor.  Each handler maps the world before the call to   *)
(* the world after it and the value returned.  The remaining parameters    *)
(* are what the operating system decides during the call: the pid of a     *)
(* spawned child, the match a signature scan returns, and the signaled     *)
(* processes that are gone before the call returns (exiting).              *)
(***************************************************************************)
\* Faulty variant: the log file is reset before the recorded instance is checked.
start_service_resets_first(w0, service, new_pid) ==
    LET r == read_pid(w0.fs, service)
        wr == reset_log_file(Log(w0, "read_pid", r.val, FALSE), service.log_filename)
    IN IF r.tag = "Err" THEN [w |-> wr, result |-> ProcessError(service.name)]
       ELSE LET w1 == IF r.tag = "Some" THEN Log(wr, "is_running", r.val, FALSE) ELSE wr
            IN IF r.tag = "Some" /\ is_running(wr.system, service, r.val)
               THEN [w |-> w1, result |-> AlreadyRunning(r.val)]
               ELSE LET w2 == IF r.tag = "Some" THEN remove_pid(w1, service) ELSE w1
                        sp == spawn(w2, service, service.log_filename, new_pid)
                    IN IF sp.val.tag = "Err"
                       THEN [w |-> sp.w, result |-> ProcessError(service.name)]
                       ELSE [w |-> write_config(write_pid(sp.w, service, sp.val.val),
                                                service),
                             result |-> Started(sp.val.val)]

\* new_pid: the pid the OS gives the spawned child, 0 if it refuses.
\* Faulty variant: the records are written whatever spawn returned.
start_service_records_failed_spawn(w0, service, new_pid) ==
    LET r == read_pid(w0.fs, service)
        wr == Log(w0, "read_pid", r.val, FALSE)
    IN IF r.tag = "Err" THEN [w |-> wr, result |-> ProcessError(service.name)]
       ELSE LET w1 == IF r.tag = "Some" THEN Log(wr, "is_running", r.val, FALSE) ELSE wr
            IN IF r.tag = "Some" /\ is_running(wr.system, service, r.val)
               THEN [w |-> w1, result |-> AlreadyRunning(r.val)]
               ELSE LET w2 == IF r.tag = "Some" THEN remove_pid(w1, service) ELSE w1
                        w3 == reset_log_file(w2, service.log_filename)
                        sp == spawn(w3, service, service.log_filename, new_pid)
                        w4 == write_config(write_pid(sp.w, service, sp.val.val), service)
                    IN IF sp.val.tag = "Err"
                       THEN [w |-> w4, result |-> ProcessError(service.name)]
                       ELSE [w |-> w4, result |-> Started(sp.val.val)]

start_service(w0, service, new_pid) ==
    LET r == read_pid(w0.fs, service)
        wr == Log(w0, "read_pid", r.val, FALSE)
    IN IF r.tag = "Err" THEN [w |-> wr, result |-> ProcessError(service.name)]
       ELSE LET w1 == IF r.tag = "Some" THEN Log(wr, "is_running", r.val, FALSE) ELSE wr
            IN IF r.tag = "Some" /\ is_running(wr.system, service, r.val)
               THEN [w |-> w1, result |-> AlreadyRunning(r.val)]
               ELSE LET w2 == IF r.tag = "Some" THEN remove_pid(w1, service) ELSE w1
                        w3 == reset_log_file(w2, service.log_filename)
                        sp == spawn(w3, service, service.log_filename, new_pid)
                    IN IF sp.val.tag = "Err"
                       THEN [w |-> sp.w, result |-> ProcessError(service.name)]
                       ELSE [w |-> write_config(write_pid(sp.w, service, sp.val.val),
                                                service),
                             result |-> Started(sp.val.val)]

\* The write of start_service that the file system refuses, if any: the
\* open of the file (which is then left as it was) or the write to the
\* opened and truncated file (which is then left empty).
IoFailures == {"none", "write_pid_open", "write_pid_write",
               "write_config_open", "write_config_write"}

\* start_service where io is the write that fails: write_pid(service, pid)?
\* and write_config(service)? return the error to the caller.
start_service_io(w0, service, new_pid, io) ==
    LET r == read_pid(w0.fs, service)
        wr == Log(w0, "read_pid", r.val, FALSE)
    IN IF r.tag = "Err" THEN [w |-> wr, result |-> ProcessError(service.name)]
       ELSE LET w1 == IF r.tag = "Some" THEN Log(wr, "is_running", r.val, FALSE) ELSE wr
            IN IF r.tag = "Some" /\ is_running(wr.system, service, r.val)
               THEN [w |-> w1, result |-> AlreadyRunning(r.val)]
               ELSE LET w2 == IF r.tag = "Some" THEN remove_pid(w1, service) ELSE w1
                        w3 == reset_log_file(w2, service.log_filename)
                        sp == spawn(w3, service, service.log_filename, new_pid)
                        pid == sp.val.val
                        w4 == write_pid(sp.w, service, pid)
                    IN IF sp.val.tag = "Err"
                       THEN [w |-> sp.w, result |-> ProcessError(service.name)]
                       ELSE IF io = "write_pid_open"
                       THEN [w |-> Log(sp.w, "write_pid", pid, FALSE),
                             result |-> IoError]
                       ELSE IF io = "write_pid_write"
                       THEN [w |-> Log([sp.w EXCEPT !.fs[service.pid_filename] = File(<<>>)],
                                       "write_pid", pid, FALSE),
                             result |-> IoError]
                       ELSE IF io = "write_config_open"
                       THEN [w |-> Log(w4, "write_config", 0, FALSE),
                             result |-> IoError]
                       ELSE IF io = "write_config_write"
                       THEN [w |-> Log([w4 EXCEPT !.fs[service.config_filename] = File(<<>>)],
                                       "write_config", 0, FALSE),
                             result |-> IoError]
                       ELSE [w |-> write_config(w4, service), result |-> Started(pid)]

\* Faulty variant: a sweep that signals nothing is reported as an error.
stop_sweep_fails_when_idle(w, service, force, exiting) ==
    LET k == kill_by_signature(w, service, force, exiting)
    IN IF k.val > 0
       THEN [w |-> k.w, result |-> TerminatedByName(k.val, force)]
       ELSE [w |-> k.w, result |-> ProcessError(service.name)]

\* The signature sweep that ends stop_service.
stop_sweep(w, service, force, exiting) ==
    LET k == kill_by_signature(w, service, force, exiting)
    IN IF k.val > 0
       THEN [w |-> k.w, result |-> TerminatedByName(k.val, force)]
       ELSE [w |-> k.w, result |-> NotRunning]

stop_service(w0, service, force, exiting) ==
    LET r == read_pid(w0.fs, service)
        wr == Log(w0, "read_pid", r.val, FALSE)
    IN IF r.tag = "Err" THEN [w |-> wr, result |-> ProcessError(service.name)]
       ELSE IF r.tag = "Some"
       THEN LET w1 == Log(wr, "is_running", r.val, FALSE)
            IN IF is_running(wr.system, service, r.val)
               THEN LET sg == signal(w1, service, r.val, force, exiting)
                        w2 == remove_config(remove_pid(sg.w, service), service)
                    IN IF sg.val
                       THEN [w |-> w2, result |-> Stopped(r.val, force)]
                       ELSE stop_sweep(w2, service, force, exiting)
               ELSE stop_sweep(remove_config(remove_pid(w1, service), service),
                               service, force, exiting)
       ELSE stop_sweep(wr, service, force, exiting)

\* Faulty variant: a recorded pid is reported without asking the driver.
status_service_trusts_record(w0, service, found) ==
    LET r == read_pid(w0.fs, service)
        wr == Log(w0, "read_pid", r.val, FALSE)
    IN IF r.tag = "Err" THEN [w |-> wr, result |-> ProcessError(service.name)]
       ELSE IF r.tag = "Some" THEN [w |-> wr, result |-> Running(r.val)]
       ELSE LET w3 == Log(wr, "is_running_by_signature", found.val, FALSE)
            IN IF found.tag = "Some"
               THEN [w |-> write_pid(w3, service, found.val),
                     result |-> Running(found.val)]
               ELSE [w |-> w3, result |-> NotRunning]

\* found: the value is_running_by_signature returns if it is called.
status_service(w0, service, found) ==
    LET r == read_pid(w0.fs, service)
        wr == Log(w0, "read_pid", r.val, FALSE)
    IN IF r.tag = "Err" THEN [w |-> wr, result |-> ProcessError(service.name)]
       ELSE LET w1 == IF r.tag = "Some" THEN Log(wr, "is_running", r.val, FALSE) ELSE wr
            IN IF r.tag = "Some" /\ is_running(wr.system, service, r.val)
               THEN [w |-> w1, result |-> Running(r.val)]
               ELSE LET w2 == IF r.tag = "Some" THEN remove_pid(w1, service) ELSE w1
                        w3 == Log(w2, "is_running_by_signature", found.val, FALSE)
                    IN IF found.tag = "Some"
                       THEN [w |-> write_pid(w3, service, found.val),
                             result |-> Running(found.val)]
                       ELSE [w |-> w3, result |-> NotRunning]

(***************************************************************************)
(* Actions.                                                                *)
(***************************************************************************)
NoService == [name |-> "none", host |-> <<>>, port |-> 0, command |-> <<>>,
              log_filename |-> "", pid_filename |-> "", config_filename |-> "",
              env |-> <<>>]

NoCall == [op |-> "none", service |-> NoService, force |-> FALSE,
           result |-> Outcome("none", 0, 0, FALSE, ""), events |-> <<>>,
           follows |-> "none"]

Call(op, service, force, r) ==
    [op |-> op, service |-> service, force |-> force,
     result |-> r.result, events |-> r.w.events,
     follows |-> IF last.service = service THEN last.op ELSE "none"]

\* The files of the state directory that belong to one service.
PathsOf(name) ==
    UNION {{d.log_filename, d.pid_filename, d.config_filename} :
               d \in {x \in Descriptors : x.name = name}}

\* A behaviour follows the state files of one service; the instances of the
\* other runtime appear in it as foreign processes.
Init ==
    /\ system = [pid \in Pids |-> NoProc]
    /\ \E name \in Services : fs = [path \in PathsOf(name) |-> NoFile]
    /\ last = NoCall
    /\ inflight = <<>>
    /\ trace = <<>>

\* The descriptors whose state files the behaviour follows.
Supervised == {d \in Descriptors : d.pid_filename \in DOMAIN fs}

FreePids == {pid \in Pids : ~system[pid].live}

Start(service, new_pid) ==
    LET r == start_service(World(system, fs), service, new_pid)
    IN /\ system' = r.w.system
       /\ fs' = r.w.fs
       /\ last' = Call("start", service, FALSE, r)
       /\ UNCHANGED <<inflight, trace>>

Stop(service, force, exiting) ==
    LET r == stop_service(World(system, fs), service, force, exiting)
    IN /\ system' = r.w.system
       /\ fs' = r.w.fs
       /\ last' = Call("stop", service, force, r)
       /\ UNCHANGED <<inflight, trace>>

Status(service, found) ==
    LET r == status_service(World(system, fs), service, found)
    IN /\ system' = r.w.system
       /\ fs' = r.w.fs
       /\ last' = Call("status", service, FALSE, r)
       /\ UNCHANGED <<inflight, trace>>

\* A direct call of the driver's signal with an arbitrary pid.
Signal(service, pid, force, exiting) ==
    LET sg == signal(World(system, fs), service, pid, force, exiting)
        r == [w |-> sg.w,
              result |-> Outcome(IF sg.val THEN "Delivered" ELSE "NotDelivered",
                                 pid, 0, force, "")]
    IN /\ system' = r.w.system
       /\ fs' = r.w.fs
       /\ last' = Call("signal", service, force, r)
       /\ UNCHANGED <<inflight, trace>>

\* Processes other than the supervisor's children: an instance of the
\* runtime started by hand or by another user, and a process that has no
\* command line and is known by its name only.
ForeignProcs == {Proc(d.command, d.command[1], o) : d \in Supervised, o \in BOOLEAN}
                    \cup {Proc(<<>>, <<"o","l","l","a","m","a">>, TRUE)}

\* A process appears under a free pid (which may be a pid used before).
ProcessStarts(pid, proc) ==
    /\ ~system[pid].live
    /\ system' = [system EXCEPT ![pid] = proc]
    /\ last' = NoCall
    /\ UNCHANGED <<fs, inflight, trace>>

\* A process exits: a crash, a kill from outside, or the end of a
\* process that was signaled earlier.
ProcessExits(pid) ==
    /\ system[pid].live
    /\ system' = [system EXCEPT ![pid] = NoProc]
    /\ last' = NoCall
    /\ UNCHANGED <<fs, inflight, trace>>

\* A running instance of the service appends to the log file it holds.
ChildWritesLog(service) ==
    /\ fs[service.log_filename].exists
    /\ Len(fs[service.log_filename].data) < MaxLog
    /\ \E pid \in Pids : system[pid].live /\ system[pid].cmd = service.command
    /\ fs' = [fs EXCEPT ![service.log_filename].data = Append(@, "x")]
    /\ last' = NoCall
    /\ UNCHANGED <<system, inflight, trace>>

\* Contents a PID file can have that no write_pid of a spawned pid left:
\* blank, and not a number.
ForeignPidContents == {<<" ", "\n">>, <<"x">>}

PidFileEdited(path, data) ==
    /\ fs[path] # File(data)
    /\ fs' = [fs EXCEPT ![path] = File(data)]
    /\ last' = NoCall
    /\ UNCHANGED <<system, inflight, trace>>

Next ==
    \/ \E d \in Supervised, new_pid \in {0} \cup FreePids : Start(d, new_pid)
    \/ \E d \in Supervised, force \in BOOLEAN :
          \E exiting \in SUBSET MatchingPids(system, d) : Stop(d, force, exiting)
    \/ \E d \in Supervised :
          \E found \in is_running_by_signature(system, d) : Status(d, found)
    \/ \E pid \in Pids, proc \in ForeignProcs : ProcessStarts(pid, proc)
    \/ \E pid \in Pids : ProcessExits(pid)
    \/ \E d \in Supervised : ChildWritesLog(d)
    \/ \E d \in Supervised, data \in ForeignPidContents :
          PidFileEdited(d.pid_filename, data)

Spec == Init /\ [][Next]_vars

\* The lifecycle calls and, next to them, direct calls of the driver.
NextDriver ==
    \/ Next
    \/ \E d \in Supervised, pid \in Pids \cup {0}, force \in BOOLEAN :
          \E exiting \in SUBSET {pid} : Signal(d, pid, force, exiting)

SpecDriver == Init /\ [][NextDriver]_vars

(***************************************************************************)
(* Scenarios: sequences of lifecycle calls from an empty state directory   *)
(* under a driver whose processes behave: a spawn succeeds, a spawned      *)
(* process stays live until it is signaled and is gone once it is          *)
(* signaled.  trace records the calls and their outcomes.                  *)
(***************************************************************************)
\* A process of another program, known by its name only.
Bystander == Proc(<<>>, <<"o","l","l","a","m","a">>, TRUE)

InitScenario ==
    /\ \E taken \in SUBSET {1} :
          system = [pid \in Pids |-> IF pid \in taken THEN Bystander ELSE NoProc]
    /\ \E name \in Services : fs = [path \in PathsOf(name) |-> NoFile]
    /\ last = NoCall
    /\ inflight = <<>>
    /\ trace = <<>>

Recorded(op, force, r) == [op |-> op, force |-> force, result |-> r.result]

ScenarioStart(service, new_pid) ==
    LET r == start_service(World(system, fs), service, new_pid)
    IN /\ Len(trace) < MaxTrace
       /\ system' = r.w.system
       /\ fs' = r.w.fs
       /\ last' = Call("start", service, FALSE, r)
       /\ trace' = Append(trace, Recorded("start", FALSE, r))
       /\ UNCHANGED inflight

ScenarioStop(service, force) ==
    LET r == stop_service(World(system, fs), service, force,
                          MatchingPids(system, service))
    IN /\ Len(trace) < MaxTrace
       /\ system' = r.w.system
       /\ fs' = r.w.fs
       /\ last' = Call("stop", service, force, r)
       /\ trace' = Append(trace, Recorded("stop", force, r))
       /\ UNCHANGED inflight

ScenarioStatus(service, found) ==
    LET r == status_service(World(system, fs), service, found)
    IN /\ Len(trace) < MaxTrace
       /\ system' = r.w.system
       /\ fs' = r.w.fs
       /\ last' = Call("status", service, FALSE, r)
       /\ trace' = Append(trace, Recorded("status", FALSE, r))
       /\ UNCHANGED inflight

NextScenario ==
    \/ \E d \in Supervised, new_pid \in FreePids : ScenarioStart(d, new_pid)
    \/ \E d \in Supervised, force \in BOOLEAN : ScenarioStop(d, force)
    \/ \E d \in Supervised :
          \E found \in is_running_by_signature(system, d) : ScenarioStatus(d, found)

SpecScenario == InitScenario /\ [][NextScenario]_vars

(***************************************************************************)
(* Serial calls from an empty state directory where only the supervisor    *)
(* starts instances, and a process ends when it chooses to: a signaled     *)
(* process may be gone when the stop returns or stay for any time, and     *)
(* any process may exit on its own.                                        *)
(***************************************************************************)
SerialStop(service, force, exiting) ==
    LET r == stop_service(World(system, fs), service, force, exiting)
    IN /\ Len(trace) < MaxTrace
       /\ system' = r.w.system
       /\ fs' = r.w.fs
       /\ last' = Call("stop", service, force, r)
       /\ trace' = Append(trace, Recorded("stop", force, r))
       /\ UNCHANGED inflight

NextSerial ==
    \/ \E d \in Supervised, new_pid \in FreePids : ScenarioStart(d, new_pid)
    \/ \E d \in Supervised, force \in BOOLEAN :
          \E exiting \in SUBSET MatchingPids(system, d) : SerialStop(d, force, exiting)
    \/ \E d \in Supervised :
          \E found \in is_running_by_signature(system, d) : ScenarioStatus(d, found)
    \/ \E pid \in Pids : ProcessExits(pid)

SpecSerial == InitScenario /\ [][NextSerial]_vars

(***************************************************************************)
(* Lifecycle calls on a file system that may refuse a write of             *)
(* start_service (a full disk, a PID file that is read-only).              *)
(***************************************************************************)
StartIo(service, new_pid, io) ==
    LET r == start_service_io(World(system, fs), service, new_pid, io)
    IN /\ system' = r.w.system
       /\ fs' = r.w.fs
       /\ last' = Call("start", service, FALSE, r)
       /\ UNCHANGED <<inflight, trace>>

NextIo ==
    \/ \E d \in Supervised, new_pid \in {0} \cup FreePids, io \in IoFailures :
          StartIo(d, new_pid, io)
    \/ \E d \in Supervised, force \in BOOLEAN :
          \E exiting \in SUBSET MatchingPids(system, d) : Stop(d, force, exiting)
    \/ \E d \in Supervised :
          \E found \in is_running_by_signature(system, d) : Status(d, found)
    \/ \E pid \in Pids : ProcessExits(pid)

SpecIo == Init /\ [][NextIo]_vars

(***************************************************************************)
(* Lifecycle calls on a state directory whose PID file is emptied or       *)
(* filled with whitespace from outside, next to instances started by       *)
(* hand.                                                                   *)
(***************************************************************************)
\* Contents of a PID file that exists and holds no pid.
BlankPidContents == {<<>>, <<"\n">>, <<" ", "\n">>, <<"\t", "\r", "\n">>}

NextBlank ==
    \/ \E d \in Supervised, new_pid \in {0} \cup FreePids : Start(d, new_pid)
    \/ \E d \in Supervised, force \in BOOLEAN :
          \E exiting \in SUBSET MatchingPids(system, d) : Stop(d, force, exiting)
    \/ \E d \in Supervised :
          \E found \in is_running_by_signature(system, d) : Status(d, found)
    \/ \E pid \in Pids, d \in Supervised :
          ProcessStarts(pid, Proc(d.command, d.command[1], TRUE))
    \/ \E pid \in Pids : ProcessExits(pid)
    \/ \E d \in Supervised, data \in BlankPidContents :
          PidFileEdited(d.pid_filename, data)

SpecBlank == Init /\ [][NextBlank]_vars

(***************************************************************************)
(* Commands of the tool (cli/commands/lifecycle.rs).  cfg is the content   *)
(* of the config file when the command loads it; the file can be edited    *)
(* between two commands, so each command takes any of Configs.  The        *)
(* readiness wait that ends handle_up reads the process table and the      *)
(* endpoint and changes neither the records nor the processes.             *)
(***************************************************************************)
ServiceTypes == {name \in Services : \E d \in Supervised : d.name = name}

LivePids == {pid \in Pids : system[pid].live}

\* The readiness wait that follows the report of the start outcome polls
\* the instance and changes nothing.
handle_up(service_type, cfg, new_pid) ==
    LET service == service_for_up(cfg, service_type)
        r == start_service(World(system, fs), service, new_pid)
    IN /\ system' = r.w.system
       /\ fs' = r.w.fs
       /\ last' = Call("up", service, FALSE, r)
       /\ UNCHANGED inflight

handle_down(service_type, cfg, force) ==
    \E sv \in {service_for_runtime(fs, cfg, service_type)} :
       \E exiting \in SUBSET MatchingPids(system, sv.val) :
          LET r == IF sv.tag = "Err"
                   THEN [w |-> World(system, fs), result |-> ProcessError(sv.val.name)]
                   ELSE stop_service(World(system, fs), sv.val, force, exiting)
          IN /\ system' = r.w.system
             /\ fs' = r.w.fs
             /\ last' = Call("down", sv.val, force, r)
             /\ UNCHANGED inflight

handle_ps_single(service_type, cfg) ==
    \E sv \in {service_for_runtime(fs, cfg, service_type)} :
       \E found \in is_running_by_signature(system, sv.val) :
          LET r == IF sv.tag = "Err"
                   THEN [w |-> World(system, fs), result |-> ProcessError(sv.val.name)]
                   ELSE status_service(World(system, fs), sv.val, found)
          IN /\ system' = r.w.system
             /\ fs' = r.w.fs
             /\ last' = Call("ps", sv.val, FALSE, r)
             /\ UNCHANGED inflight

\* The log file is read and printed; nothing changes.
handle_logs_single(service_type, cfg) ==
    \E sv \in {service_for_runtime(fs, cfg, service_type)} :
       LET r == [w |-> World(system, fs),
                 result |-> IF sv.tag = "Err" THEN ProcessError(sv.val.name)
                            ELSE Outcome("Ok", 0, 0, FALSE, "")]
       IN /\ last' = Call("logs", sv.val, FALSE, r)
          /\ UNCHANGED <<system, fs, inflight>>

\* The runtime-config record is edited by hand into one whose port is not
\* a number.
ConfigRecordEdited(service) ==
    LET data == <<"p","o","r","t","=","x","\n">>
    IN /\ fs[service.config_filename] # File(data)
       /\ fs' = [fs EXCEPT ![service.config_filename] = File(data)]
       /\ last' = NoCall
       /\ UNCHANGED <<system, inflight, trace>>

NextCli ==
    \/ \E t \in ServiceTypes, cfg \in Configs, new_pid \in {0} \cup FreePids :
          handle_up(t, cfg, new_pid) /\ UNCHANGED trace
    \/ \E t \in ServiceTypes, cfg \in Configs, force \in BOOLEAN :
          handle_down(t, cfg, force) /\ UNCHANGED trace
    \/ \E t \in ServiceTypes, cfg \in Configs :
          handle_ps_single(t, cfg) /\ UNCHANGED trace
    \/ \E t \in ServiceTypes, cfg \in Configs :
          handle_logs_single(t, cfg) /\ UNCHANGED trace
    \/ \E pid \in Pids : ProcessExits(pid)
    \/ \E d \in Supervised : ConfigRecordEdited(d)

SpecCli == Init /\ [][NextCli]_vars

(***************************************************************************)
(* Concurrent invocations.  Each invocation of the tool is a process of    *)
(* its own; the steps of its handler (one file or driver operation each)   *)
(* interleave with the steps of the others.  inflight[i] holds the         *)
(* position of invocation i in start_service and its local values:         *)
(*   r           what its read_pid returned                                *)
(*   pid         the pid its spawn returned                                *)
(*   after_write whether another invocation had written its PID record     *)
(*               when this one read the PID file                           *)
(*   began       what the PID file held when the invocations began         *)
(***************************************************************************)
Invocations == 1..2

Invocation(op, service) ==
    [op |-> op, service |-> service, pc |-> "read_pid", r |-> None, pid |-> 0,
     after_write |-> FALSE, began |-> None,
     result |-> Outcome("none", 0, 0, FALSE, "")]

InitRace ==
    /\ \E taken \in SUBSET {1} :
          system = [pid \in Pids |-> IF pid \in taken THEN Bystander ELSE NoProc]
    /\ \E d \in Descriptors, began \in {None, Some(1)} :
          /\ fs = [path \in PathsOf(d.name) |->
                      IF path = d.pid_filename /\ began.tag = "Some"
                      THEN File(to_string(began.val) \o <<"\n">>) ELSE NoFile]
          /\ inflight = [i \in Invocations |->
                            [Invocation("start", d) EXCEPT !.began = began]]
    /\ last = NoCall
    /\ trace = <<>>

Finish(i, result) == [inflight EXCEPT ![i].pc = "done", ![i].result = result]

\* let Some(pid) = read_pid(service)?
StartReadPid(i) ==
    LET self == inflight[i]
        r == read_pid(fs, self.service)
        written == \E j \in Invocations \ {i} :
                       inflight[j].pc \in {"write_config", "done"} /\ inflight[j].pid # 0
    IN /\ self.op = "start" /\ self.pc = "read_pid"
       /\ inflight' =
             IF r.tag = "Err" THEN Finish(i, ProcessError(self.service.name))
             ELSE [inflight EXCEPT ![i].r = r, ![i].after_write = written,
                                   ![i].pc = IF r.tag = "Some" THEN "is_running"
                                             ELSE "reset_log_file"]
       /\ UNCHANGED <<system, fs, last, trace>>

\* driver.is_running(service, pid)
StartIsRunning(i) ==
    LET self == inflight[i]
    IN /\ self.op = "start" /\ self.pc = "is_running"
       /\ inflight' = IF is_running(system, self.service, self.r.val)
                      THEN Finish(i, AlreadyRunning(self.r.val))
                      ELSE [inflight EXCEPT ![i].pc = "remove_pid"]
       /\ UNCHANGED <<system, fs, last, trace>>

StartRemovePid(i) ==
    LET self == inflight[i]
    IN /\ self.op = "start" /\ self.pc = "remove_pid"
       /\ fs' = remove_pid(World(system, fs), self.service).fs
       /\ inflight' = [inflight EXCEPT ![i].pc = "reset_log_file"]
       /\ UNCHANGED <<system, last, trace>>

StartResetLog(i) ==
    LET self == inflight[i]
    IN /\ self.op = "start" /\ self.pc = "reset_log_file"
       /\ fs' = reset_log_file(World(system, fs), self.service.log_filename).fs
       /\ inflight' = [inflight EXCEPT ![i].pc = "spawn"]
       /\ UNCHANGED <<system, last, trace>>

StartSpawn(i, new_pid) ==
    LET self == inflight[i]
        sp == spawn(World(system, fs), self.service, self.service.log_filename, new_pid)
    IN /\ self.op = "start" /\ self.pc = "spawn"
       /\ system' = sp.w.system
       /\ fs' = sp.w.fs
       /\ inflight' = IF sp.val.tag = "Err"
                      THEN Finish(i, ProcessError(self.service.name))
                      ELSE [inflight EXCEPT ![i].pid = sp.val.val, ![i].pc = "write_pid"]
       /\ UNCHANGED <<last, trace>>

StartWritePid(i) ==
    LET self == inflight[i]
    IN /\ self.op = "start" /\ self.pc = "write_pid"
       /\ fs' = write_pid(World(system, fs), self.service, self.pid).fs
       /\ inflight' = [inflight EXCEPT ![i].pc = "write_config"]
       /\ UNCHANGED <<system, last, trace>>

StartWriteConfig(i) ==
    LET self == inflight[i]
    IN /\ self.op = "start" /\ self.pc = "write_config"
       /\ fs' = write_config(World(system, fs), self.service).fs
       /\ inflight' = Finish(i, Started(self.pid))
       /\ UNCHANGED <<system, last, trace>>

NextRace ==
    \/ \E i \in Invocations : StartReadPid(i)
    \/ \E i \in Invocations : StartIsRunning(i)
    \/ \E i \in Invocations : StartRemovePid(i)
    \/ \E i \in Invocations : StartResetLog(i)
    \/ \E i \in Invocations, new_pid \in FreePids : StartSpawn(i, new_pid)
    \/ \E i \in Invocations : StartWritePid(i)
    \/ \E i \in Invocations : StartWriteConfig(i)

SpecRace == InitRace /\ [][NextRace]_vars

(***************************************************************************)
(* A start and a stop of the same service that run at the same time.       *)
(* inflight[1] is the start, inflight[2] the stop; the steps of            *)
(* stop_service are one file or driver operation each, as those of         *)
(* start_service.  Besides the fields of a start, the stop holds           *)
(*   force      the force argument                                         *)
(*   delivered  what its driver.signal returned                            *)
(*   signaled   the pids of processes spawned by the start that its        *)
(*              signals were delivered to                                  *)
(*   purged     what the PID file held when its remove_pid removed it      *)
(***************************************************************************)
Starter == 1

Stopper == 2

Stopping(service, force) ==
    [op |-> "stop", service |-> service, pc |-> "read_pid", r |-> None, pid |-> 0,
     after_write |-> FALSE, began |-> None,
     result |-> Outcome("none", 0, 0, FALSE, ""),
     force |-> force, delivered |-> FALSE, signaled |-> {}, purged |-> None]

\* The state directory is empty or holds the records of pid 1; pid 1 is
\* free or an instance of the service the tool spawned earlier.
InitStartStop ==
    /\ \E d \in Descriptors :
       \E began \in {None, Some(1)}, live \in BOOLEAN, force \in BOOLEAN :
          /\ system = [pid \in Pids |->
                          IF pid = 1 /\ live THEN Proc(d.command, d.command[1], TRUE)
                          ELSE NoProc]
          /\ fs = IF began.tag = "Some"
                  THEN write_config(write_pid(World(system,
                           [path \in PathsOf(d.name) |-> NoFile]), d, began.val), d).fs
                  ELSE [path \in PathsOf(d.name) |-> NoFile]
          /\ inflight = <<[Invocation("start", d) EXCEPT !.began = began],
                          [Stopping(d, force) EXCEPT !.began = began]>>
    /\ last = NoCall
    /\ trace = <<>>

\* The pids of the processes the start has spawned.
Spawned == {inflight[Starter].pid} \ {0}

\* if let Some(pid) = read_pid(service)?
StopReadPid(i) ==
    LET self == inflight[i]
        r == read_pid(fs, self.service)
        written == \E j \in Invocations \ {i} :
                       inflight[j].pc \in {"write_config", "done"} /\ inflight[j].pid # 0
    IN /\ self.op = "stop" /\ self.pc = "read_pid"
       /\ inflight' =
             IF r.tag = "Err" THEN Finish(i, ProcessError(self.service.name))
             ELSE [inflight EXCEPT ![i].r = r, ![i].after_write = written,
                                   ![i].pc = IF r.tag = "Some" THEN "is_running"
                                             ELSE "kill_by_signature"]
       /\ UNCHANGED <<system, fs, last, trace>>

\* if with_driver(|driver| driver.is_running(service, pid))
StopIsRunning(i) ==
    LET self == inflight[i]
    IN /\ self.op = "stop" /\ self.pc = "is_running"
       /\ inflight' = [inflight EXCEPT
                          ![i].pc = IF is_running(system, self.service, self.r.val)
                                    THEN "signal" ELSE "remove_pid"]
       /\ UNCHANGED <<system, fs, last, trace>>

\* let signaled = with_driver(|driver| driver.signal(service, pid, force))?
StopSignal(i, exiting) ==
    LET self == inflight[i]
        sg == signal(World(system, fs), self.service, self.r.val, self.force, exiting)
    IN /\ self.op = "stop" /\ self.pc = "signal"
       /\ system' = sg.w.system
       /\ inflight' = [inflight EXCEPT
                          ![i].delivered = sg.val,
                          ![i].signaled = IF sg.val THEN @ \cup ({self.r.val} \cap Spawned)
                                          ELSE @,
                          ![i].pc = "remove_pid"]
       /\ UNCHANGED <<fs, last, trace>>

\* remove_pid(service)?, in each of the three branches
StopRemovePid(i) ==
    LET self == inflight[i]
    IN /\ self.op = "stop" /\ self.pc = "remove_pid"
       /\ fs' = remove_pid(World(system, fs), self.service).fs
       /\ inflight' = [inflight EXCEPT ![i].purged = read_pid(fs, self.service),
                                       ![i].pc = "remove_config"]
       /\ UNCHANGED <<system, last, trace>>

\* remove_config(service)?, followed by return Ok(Stopped) when signaled
StopRemoveConfig(i) ==
    LET self == inflight[i]
    IN /\ self.op = "stop" /\ self.pc = "remove_config"
       /\ fs' = remove_config(World(system, fs), self.service).fs
       /\ inflight' = IF self.delivered
                      THEN Finish(i, Stopped(self.r.val, self.force))
                      ELSE [inflight EXCEPT ![i].pc = "kill_by_signature"]
       /\ UNCHANGED <<system, last, trace>>

\* Faulty variant: the stop ends without the signature sweep.
StopKillBySignature_skipped(i, exiting) ==
    LET self == inflight[i]
    IN /\ self.op = "stop" /\ self.pc = "kill_by_signature"
       /\ inflight' = Finish(i, NotRunning)
       /\ UNCHANGED <<system, fs, last, trace>>

\* let killed = with_driver(|driver| driver.kill_by_signature(service, force))?
StopKillBySignature(i, exiting) ==
    LET self == inflight[i]
        r == stop_sweep(World(system, fs), self.service, self.force, exiting)
        hit == {r.w.events[k].pid :
                   k \in {j \in 1..Len(r.w.events) : r.w.events[j].ev = "kill"}}
    IN /\ self.op = "stop" /\ self.pc = "kill_by_signature"
       /\ system' = r.w.system
       /\ inflight' = [inflight EXCEPT ![i].pc = "done", ![i].result = r.result,
                                       ![i].signaled = @ \cup (hit \cap Spawned)]
       /\ UNCHANGED <<fs, last, trace>>

NextStartStop ==
    \/ StartReadPid(Starter)
    \/ StartIsRunning(Starter)
    \/ StartRemovePid(Starter)
    \/ StartResetLog(Starter)
    \/ \E new_pid \in FreePids : StartSpawn(Starter, new_pid)
    \/ StartWritePid(Starter)
    \/ StartWriteConfig(Starter)
    \/ StopReadPid(Stopper)
    \/ StopIsRunning(Stopper)
    \/ \E exiting \in SUBSET {inflight[Stopper].r.val} : StopSignal(Stopper, exiting)
    \/ StopRemovePid(Stopper)
    \/ StopRemoveConfig(Stopper)
    \/ \E exiting \in SUBSET MatchingPids(system, inflight[Stopper].service) :
          StopKillBySignature(Stopper, exiting)
    \/ \E pid \in Pids :
          (\E i \in Invocations : inflight[i].pc # "done") /\ ProcessExits(pid)

SpecStartStop == InitStartStop /\ [][NextStartStop]_vars

(***************************************************************************)
(* Readiness wait (cli/commands/lifecycle.rs).  The invocation that waits  *)
(* is inflight[1]; its fields are                                          *)
(*   elapsed   whole seconds since the wait began, as start.elapsed()      *)
(*             gives them                                                  *)
(*   timeout   the configured timeout in seconds                           *)
(*   ready     whether the endpoint answers a probe successfully now       *)
(* trace holds the liveness checks, probes and sleeps of the wait in the   *)
(* order they were made.  Time is counted up to MaxTimeout, which no       *)
(* timeout of the model exceeds.                                           *)
(***************************************************************************)
PollingInterval == 1

ProbeTimeout == 2

WaitReady == [tag |-> "Ok", name |-> "", message |-> ""]

ProcessDied(name) == [tag |-> "ProcessError", name |-> name, message |-> "died"]

TimedOut(name) == [tag |-> "ProcessError", name |-> name, message |-> "timeout"]

\* FUSION_STARTUP_TIMEOUT_SECS when it parses as u64.
startup_timeout_secs == 0..MaxTimeout

\* The driver's liveness check of the pid the wait was given.
is_process_alive(sys, service, pid) == is_running(sys, service, pid)

Elapse(elapsed, dt) == IF elapsed + dt > MaxTimeout THEN MaxTimeout ELSE elapsed + dt

Waiting(service, pid, timeout, ready) ==
    [op |-> "wait", service |-> service, pid |-> pid, pc |-> "while",
     elapsed |-> 0, timeout |-> timeout, ready |-> ready,
     result |-> [tag |-> "none", name |-> "", message |-> ""]]

\* The wait begins after start_service returned a pid: the records are
\* written; the process may already be gone.
InitWait ==
    /\ \E d \in Descriptors, live \in BOOLEAN, timeout \in startup_timeout_secs,
          ready \in BOOLEAN :
          /\ system = [pid \in Pids |->
                          IF pid = 1 /\ live THEN Proc(d.command, d.command[1], TRUE)
                          ELSE NoProc]
          /\ fs = write_config(write_pid(World(system,
                                   [path \in PathsOf(d.name) |-> NoFile]), d, 1), d).fs
          /\ inflight = <<Waiting(d, 1, timeout, ready)>>
    /\ last = NoCall
    /\ trace = <<>>

\* Faulty variant: the loop runs whatever time has passed.
WaitWhile_forever(i) ==
    LET self == inflight[i]
    IN /\ self.pc = "while"
       /\ inflight' = [inflight EXCEPT ![i].pc = "is_process_alive"]
       /\ UNCHANGED <<system, fs, last, trace>>

\* Faulty variant: a wait that times out removes the PID record.
WaitWhile_cleanup(i) ==
    LET self == inflight[i]
    IN /\ self.pc = "while"
       /\ inflight' = IF self.elapsed < self.timeout
                      THEN [inflight EXCEPT ![i].pc = "is_process_alive"]
                      ELSE Finish(i, TimedOut(self.service.name))
       /\ fs' = IF self.elapsed < self.timeout THEN fs
                ELSE remove_pid(World(system, fs), self.service).fs
       /\ UNCHANGED <<system, last, trace>>

\* while start.elapsed() < timeout
WaitWhile(i) ==
    LET self == inflight[i]
    IN /\ self.pc = "while"
       /\ inflight' = IF self.elapsed < self.timeout
                      THEN [inflight EXCEPT ![i].pc = "is_process_alive"]
                      ELSE Finish(i, TimedOut(self.service.name))
       /\ UNCHANGED <<system, fs, last, trace>>

\* Faulty variant: the liveness check is skipped.
WaitIsProcessAlive_skipped(i) ==
    LET self == inflight[i]
    IN /\ self.pc = "is_process_alive"
       /\ inflight' = [inflight EXCEPT ![i].pc = "probe"]
       /\ trace' = Append(trace, "is_process_alive")
       /\ UNCHANGED <<system, fs, last>>

\* if !process::is_process_alive(service, pid) { return Err(..) }
\* The log tail read for the message changes nothing.
WaitIsProcessAlive(i) ==
    LET self == inflight[i]
    IN /\ self.pc = "is_process_alive"
       /\ inflight' = IF is_process_alive(system, self.service, self.pid)
                      THEN [inflight EXCEPT ![i].pc = "probe"]
                      ELSE Finish(i, ProcessDied(self.service.name))
       /\ trace' = Append(trace, "is_process_alive")
       /\ UNCHANGED <<system, fs, last>>

\* health::check_inference_readiness(service, model_name, 2): the request
\* returns within its timeout, with Ok when the endpoint answered with
\* success.
WaitProbe(i, dt) ==
    LET self == inflight[i]
        now == [inflight EXCEPT ![i].elapsed = Elapse(self.elapsed, dt)]
    IN /\ self.pc = "probe"
       /\ inflight' = IF self.ready
                      THEN [now EXCEPT ![i].pc = "done", ![i].result = WaitReady]
                      ELSE [now EXCEPT ![i].pc = "sleep"]
       /\ trace' = Append(trace, IF self.ready THEN "probe_ok" ELSE "probe_err")
       /\ UNCHANGED <<system, fs, last>>

\* thread::sleep(Duration::from_millis(POLLING_INTERVAL_MS)) returns after
\* the interval or later.
WaitSleep(i, dt) ==
    LET self == inflight[i]
    IN /\ self.pc = "sleep"
       /\ inflight' = [inflight EXCEPT ![i].pc = "while",
                                       ![i].elapsed = Elapse(self.elapsed, dt)]
       /\ trace' = Append(trace, "sleep")
       /\ UNCHANGED <<system, fs, last>>

\* The endpoint starts or stops answering.
EndpointChanges(i) ==
    /\ inflight[i].pc # "done"
    /\ inflight' = [inflight EXCEPT ![i].ready = ~@]
    /\ UNCHANGED <<system, fs, last, trace>>

WaitStep ==
    \/ WaitWhile(1)
    \/ WaitIsProcessAlive(1)
    \/ \E dt \in 0..ProbeTimeout : WaitProbe(1, dt)
    \/ \E dt \in PollingInterval..(PollingInterval + 1) : WaitSleep(1, dt)

NextWait ==
    \/ WaitStep
    \/ EndpointChanges(1)
    \/ \E pid \in Pids : inflight[1].pc # "done" /\ ProcessExits(pid)

\* The invocation keeps running: a step of the wait that can be taken is
\* taken.
SpecWait == InitWait /\ [][NextWait]_vars /\ WF_vars(WaitStep)

(***************************************************************************)
(* State store called directly: the functions that write, read and remove  *)
(* the PID record and the runtime-config record, called one after the      *)
(* other on descriptors with any of StoreHosts and StorePorts, with the    *)
(* files edited from outside in between.  last holds the function called   *)
(* and what it returned.                                                   *)
(***************************************************************************)
StoreHosts == {HostA, <<>>, <<" ", "h">>, <<"h", "\n", "g">>, <<"a", "=", "b">>}

StorePorts == {0, OtherPort, U16Max}

StorePidValues == {I32Min, -1, 0, 1234, I32Max}

\* Contents a runtime-config file can be given from outside: a record with
\* carriage returns, one without host, one without port, one whose port
\* is not a number, one whose port is not a u16, one with a bad port and
\* no host.
ForeignConfigContents ==
    {<<"h","o","s","t","=","h","\r","\n","p","o","r","t","="," ","7","\r","\n">>,
     <<"p","o","r","t","=","7","\n">>,
     <<"h","o","s","t","=","h","\n">>,
     <<"h","o","s","t","=","h","\n","p","o","r","t","=","x","\n">>,
     <<"h","o","s","t","=","h","\n","p","o","r","t","=","6","5","5","3","6","\n">>,
     <<"p","o","r","t","=","\n">>}

StoreServices ==
    {[d EXCEPT !.host = host, !.port = port] :
        d \in Descriptors, host \in StoreHosts, port \in StorePorts}

OkUnit == [tag |-> "Ok", val |-> 0]

\* Faulty variant: a file that is not there is an error.
remove_result_strict(existed) == IF existed THEN OkUnit ELSE ParseErr

\* match fs::remove_file(path): Ok and NotFound both give Ok(()).
remove_result(existed) == OkUnit

Returned(w, result) == [w |-> w, result |-> result]

StoreCall(op, service, r) ==
    /\ system' = r.w.system
    /\ fs' = r.w.fs
    /\ last' = Call(op, service, FALSE, r)
    /\ UNCHANGED <<inflight, trace>>

WritePid(service, pid) ==
    StoreCall("write_pid", service,
              Returned(write_pid(World(system, fs), service, pid), OkUnit))

ReadPid(service) ==
    StoreCall("read_pid", service,
              Returned(World(system, fs), read_pid(fs, service)))

RemovePid(service) ==
    StoreCall("remove_pid", service,
              Returned(remove_pid(World(system, fs), service),
                       remove_result(fs[service.pid_filename].exists)))

WriteConfig(service) ==
    StoreCall("write_config", service,
              Returned(write_config(World(system, fs), service), OkUnit))

ReadConfig(service) ==
    StoreCall("read_config", service,
              Returned(World(system, fs), read_config(fs, service)))

RemoveConfig(service) ==
    StoreCall("remove_config", service,
              Returned(remove_config(World(system, fs), service),
                       remove_result(fs[service.config_filename].exists)))

\* The runtime-config file is given other contents from outside.
ConfigFileEdited(path, data) ==
    /\ fs[path] # File(data)
    /\ fs' = [fs EXCEPT ![path] = File(data)]
    /\ last' = NoCall
    /\ UNCHANGED <<system, inflight, trace>>

\* The descriptors write_config is called with.
Stored == {service \in StoreServices : service.pid_filename \in DOMAIN fs}

NextStore ==
    \/ \E d \in Supervised, pid \in StorePidValues : WritePid(d, pid)
    \/ \E d \in Supervised : ReadPid(d)
    \/ \E d \in Supervised : RemovePid(d)
    \/ \E service \in Stored : WriteConfig(service)
    \/ \E d \in Supervised : ReadConfig(d)
    \/ \E d \in Supervised : RemoveConfig(d)
    \/ \E d \in Supervised, data \in ForeignPidContents :
          PidFileEdited(d.pid_filename, data)
    \/ \E d \in Supervised, data \in ForeignConfigContents :
          ConfigFileEdited(d.config_filename, data)

SpecStore == Init /\ [][NextStore]_vars

(***************************************************************************)
(* Both runtimes side by side: the state directory holds the files of      *)
(* ollama and of mlx, and the commands of the tool are issued for either   *)
(* of them.  The global ps goes through both services; the events of the   *)
(* status call for a service follow an event that names the service.       *)
(***************************************************************************)
InitBoth ==
    /\ system = [pid \in Pids |-> NoProc]
    /\ fs = [path \in UNION {PathsOf(name) : name \in Services} |-> NoFile]
    /\ last = NoCall
    /\ inflight = <<>>
    /\ trace = <<>>

\* for service in services::default_services(&cfg)? { handle_service_ps(service)? }
handle_ps(cfg) ==
    \E o \in {load_ollama_service(fs, cfg.ollama_server)},
       m \in {load_mlx_service(fs, cfg.mlx_server)} :
       IF o.tag = "Err" \/ m.tag = "Err"
       THEN /\ last' = Call("ps_all", NoService, FALSE,
                            [w |-> World(system, fs),
                             result |-> ProcessError(IF o.tag = "Err" THEN o.val.name
                                                     ELSE m.val.name)])
            /\ UNCHANGED <<system, fs, inflight>>
       ELSE \E found \in is_running_by_signature(system, o.val) :
               \E first \in {status_service(Log(World(system, fs), o.val.name, 0, FALSE),
                                            o.val, found)} :
                  \E again \in is_running_by_signature(first.w.system, m.val) :
                     LET r == IF IsOk(first.result)
                              THEN status_service(Log(first.w, m.val.name, 0, FALSE),
                                                  m.val, again)
                              ELSE first
                     IN /\ system' = r.w.system
                        /\ fs' = r.w.fs
                        /\ last' = Call("ps_all", NoService, FALSE, r)
                        /\ UNCHANGED inflight

\* The config file keeps its defaults.
DefaultConfig ==
    CHOOSE cfg \in Configs : cfg.ollama_server.host = HostA

NextBoth ==
    \/ \E t \in ServiceTypes, new_pid \in {0} \cup FreePids :
          handle_up(t, DefaultConfig, new_pid) /\ UNCHANGED trace
    \/ \E t \in ServiceTypes, force \in BOOLEAN :
          handle_down(t, DefaultConfig, force) /\ UNCHANGED trace
    \/ \E t \in ServiceTypes : handle_ps_single(t, DefaultConfig) /\ UNCHANGED trace
    \/ handle_ps(DefaultConfig) /\ UNCHANGED trace
    \/ \E pid \in Pids : ProcessExits(pid)
    \/ \E d \in Supervised : PidFileEdited(d.pid_filename, <<"x">>)

SpecBoth == InitBoth /\ [][NextBoth]_vars

(***************************************************************************)
(* The tool's process (main.rs): main dispatches one command, prints the   *)
(* error it returned, if any, and exits.  trace holds what the command     *)
(* returned, the exit status and what was printed to the error stream.     *)
(***************************************************************************)
\* What wait_until_ready can return for the service.
WaitResults(name) == {WaitReady, ProcessDied(name), TimedOut(name)}

\* handle_service_up: the error of start_service, or else what the
\* readiness wait returned.
handle_service_up(started, waited) == IF IsOk(started) THEN waited ELSE started

\* Faulty variant: a command that found nothing running is a failure.
main_fails_when_idle(result) ==
    IF result.tag \in {"ProcessError", "NotRunning"}
    THEN [status |-> 1, stderr |-> <<"Error: ", result>>]
    ELSE [status |-> 0, stderr |-> <<>>]

\* if let Err(err) = result { eprintln!("Error: {err}"); exit(1) }
main(result) ==
    IF result.tag = "ProcessError"
    THEN [status |-> 1, stderr |-> <<"Error: ", result>>]
    ELSE [status |-> 0, stderr |-> <<>>]

Exits(result) == <<[returned |-> result, exit |-> main(result)]>>

NextMain ==
    \/ \E t \in ServiceTypes, new_pid \in {0} \cup FreePids :
          \E waited \in WaitResults(t) :
             /\ handle_up(t, DefaultConfig, new_pid)
             /\ trace' = Exits(handle_service_up(last'.result, waited))
    \/ \E t \in ServiceTypes, force \in BOOLEAN :
          handle_down(t, DefaultConfig, force) /\ trace' = Exits(last'.result)
    \/ \E t \in ServiceTypes :
          handle_ps_single(t, DefaultConfig) /\ trace' = Exits(last'.result)
    \/ \E t \in ServiceTypes :
          handle_logs_single(t, DefaultConfig) /\ trace' = Exits(last'.result)
    \/ \E pid \in Pids : ProcessExits(pid)
    \/ \E d \in Supervised : ConfigRecordEdited(d)
    \/ \E d \in Supervised : PidFileEdited(d.pid_filename, <<"x">>)

SpecMain == Init /\ [][NextMain]_vars

(***************************************************************************)
(* A record read while it is written.  inflight[1] is an invocation in     *)
(* write_pid or write_config, inflight[2] one in read_pid or read_config   *)
(* on the same service.  The writer opens the file with create and         *)
(* truncate and then passes the pieces of its formatted lines to the file  *)
(* one write at a time (the file is not buffered, so writeln! writes the   *)
(* literal parts and the formatted values of a line separately); the       *)
(* reader reads the whole file at some point in between.  The fields of    *)
(* an invocation:                                                          *)
(*   rest      the pieces the writer has still to write                    *)
(*   previous  what a read returned before the writer began                *)
(*   seen      the contents the reader found                               *)
(***************************************************************************)
Writer == 1

Reader == 2

\* writeln!(handle, "{pid}")
pid_pieces(pid) == <<to_string(pid), <<"\n">>>>

\* writeln!(handle, "host={}", service.host); writeln!(handle, "port={}", service.port)
config_pieces(service) ==
    SelectSeq(<< <<"h","o","s","t","=">>, service.host, <<"\n">>,
                 <<"p","o","r","t","=">>, to_string(service.port), <<"\n">> >>,
              LAMBDA piece : Len(piece) > 0)

Records == {"pid", "config"}

RecordFile(service, record) ==
    IF record = "pid" THEN service.pid_filename ELSE service.config_filename

read_record(files, service, record) ==
    IF record = "pid" THEN read_pid(files, service)
    ELSE read_config(files, service)

Accessing(op, service, record, previous) ==
    [op |-> op, service |-> service, record |-> record, pc |-> "open",
     rest |-> <<>>, new_pid |-> 0, previous |-> previous, seen |-> NoFile,
     result |-> None]

\* The record is absent or was written completely by an earlier start
\* with the default host and port; the writer writes another pid, host
\* and port.
InitReadWrite ==
    /\ system = [pid \in Pids |-> NoProc]
    /\ \E d \in Descriptors, record \in Records, written \in BOOLEAN :
          LET w0 == World(system, [path \in PathsOf(d.name) |-> NoFile])
              w1 == IF ~written THEN w0
                    ELSE IF record = "pid" THEN write_pid(w0, d, 1)
                    ELSE write_config(w0, d)
              new == [d EXCEPT !.host = HostB, !.port = OtherPort]
              previous == read_record(w1.fs, d, record)
          IN /\ fs = w1.fs
             /\ inflight =
                   <<[Accessing("write", new, record, previous) EXCEPT !.new_pid = MaxPid],
                     Accessing("read", d, record, previous)>>
    /\ last = NoCall
    /\ trace = <<>>

\* Faulty variant: the file is opened for append and keeps its contents.
WriteOpen_append(i) ==
    LET self == inflight[i]
    IN /\ self.op = "write" /\ self.pc = "open"
       /\ inflight' = [inflight EXCEPT ![i].pc = "write",
                          ![i].rest = IF self.record = "pid" THEN pid_pieces(self.new_pid)
                                      ELSE config_pieces(self.service)]
       /\ UNCHANGED <<system, fs, last, trace>>

\* OpenOptions::new().create(true).write(true).truncate(true).open(path)
WriteOpen(i) ==
    LET self == inflight[i]
    IN /\ self.op = "write" /\ self.pc = "open"
       /\ fs' = [fs EXCEPT ![RecordFile(self.service, self.record)] = File(<<>>)]
       /\ inflight' = [inflight EXCEPT ![i].pc = "write",
                          ![i].rest = IF self.record = "pid" THEN pid_pieces(self.new_pid)
                                      ELSE config_pieces(self.service)]
       /\ UNCHANGED <<system, last, trace>>

\* One write of the formatter to the file.
WritePiece(i) ==
    LET self == inflight[i]
        path == RecordFile(self.service, self.record)
    IN /\ self.op = "write" /\ self.pc = "write"
       /\ fs' = [fs EXCEPT ![path] = File(@.data \o Head(self.rest))]
       /\ inflight' = [inflight EXCEPT ![i].rest = Tail(self.rest),
                          ![i].pc = IF Len(self.rest) = 1 THEN "done" ELSE "write"]
       /\ UNCHANGED <<system, last, trace>>

\* fs::read_to_string(&path) and the parse of what it returned.
ReadRecord(i) ==
    LET self == inflight[i]
    IN /\ self.op = "read" /\ self.pc = "open"
       /\ inflight' = [inflight EXCEPT
                          ![i].pc = "done",
                          ![i].seen = fs[RecordFile(self.service, self.record)],
                          ![i].result = read_record(fs, self.service, self.record)]
       /\ UNCHANGED <<system, fs, last, trace>>

NextReadWrite ==
    \/ WriteOpen(Writer)
    \/ WritePiece(Writer)
    \/ ReadRecord(Reader)

SpecReadWrite == InitReadWrite /\ [][NextReadWrite]_vars

(***************************************************************************)
(* An up and another invocation.  inflight[1] is an invocation of up: it   *)
(* calls start_service and then waits for readiness as in the readiness    *)
(* wait above; started is what its start_service returned.  inflight[2]    *)
(* is a status or a stop of the same service, issued by another process    *)
(* of the tool while the up is in its wait.  trace holds the operations    *)
(* of the up in the order they were made: those of start_service, then     *)
(* the liveness checks, probes and sleeps of the wait.                     *)
(***************************************************************************)
Upper == 1

Other == 2

WaitPcs == {"while", "is_process_alive", "probe", "sleep"}

StartFailed(name) == [tag |-> "ProcessError", name |-> name, message |-> "start"]

OpsOf(events) == [k \in 1..Len(events) |-> events[k].ev]

Up(service, timeout, ready) ==
    [op |-> "up", service |-> service, pid |-> 0, pc |-> "start_service",
     elapsed |-> 0, timeout |-> timeout, ready |-> ready,
     started |-> Outcome("none", 0, 0, FALSE, ""),
     result |-> [tag |-> "none", name |-> "", message |-> ""]]

Issued(op, service, force) ==
    [op |-> op, service |-> service, force |-> force, pc |-> "issued"]

\* The state directory is empty or holds the PID record of pid 1; pid 1 is
\* free or an instance of the service, started by the tool or by hand.
InitUp ==
    /\ \E d \in Descriptors :
       \E began \in {None, Some(1)},
          proc \in {NoProc} \cup {Proc(d.command, d.command[1], o) : o \in BOOLEAN},
          timeout \in startup_timeout_secs, ready \in BOOLEAN,
          op \in {"status", "stop"}, force \in BOOLEAN :
          /\ op = "status" => ~force
          /\ system = [pid \in Pids |-> IF pid = 1 THEN proc ELSE NoProc]
          /\ fs = [path \in PathsOf(d.name) |->
                      IF path = d.pid_filename /\ began.tag = "Some"
                      THEN File(to_string(began.val) \o <<"\n">>) ELSE NoFile]
          /\ inflight = <<Up(d, timeout, ready), Issued(op, d, force)>>
    /\ last = NoCall
    /\ trace = <<>>

\* Faulty variant: the wait begins once the child is spawned; the records
\* are not written before it.
UpStartService_unrecorded(i, new_pid) ==
    LET self == inflight[i]
        sp == spawn(World(system, fs), self.service, self.service.log_filename, new_pid)
    IN /\ self.pc = "start_service"
       /\ system' = sp.w.system
       /\ fs' = sp.w.fs
       /\ trace' = OpsOf(sp.w.events)
       /\ inflight' = IF sp.val.tag = "Err"
                      THEN Finish(i, StartFailed(self.service.name))
                      ELSE [inflight EXCEPT ![i].started = Started(sp.val.val),
                                            ![i].pid = sp.val.val,
                                            ![i].pc = "while"]
       /\ UNCHANGED last

\* match process::start_service(&service)? { Started { pid } | AlreadyRunning
\* { pid } => wait_until_ready(&service, pid, model_name)? }
UpStartService(i, new_pid) ==
    LET self == inflight[i]
        r == start_service(World(system, fs), self.service, new_pid)
    IN /\ self.pc = "start_service"
       /\ system' = r.w.system
       /\ fs' = r.w.fs
       /\ trace' = OpsOf(r.w.events)
       /\ inflight' = IF ~IsOk(r.result)
                      THEN Finish(i, StartFailed(self.service.name))
                      ELSE [inflight EXCEPT ![i].started = r.result,
                                            ![i].pid = r.result.pid,
                                            ![i].pc = "while"]
       /\ UNCHANGED last

\* The other invocation runs its status_service while the up waits.
OtherStatus(j, found) ==
    LET self == inflight[j]
        r == status_service(World(system, fs), self.service, found)
    IN /\ self.op = "status" /\ self.pc = "issued"
       /\ inflight[Upper].pc \in WaitPcs
       /\ system' = r.w.system
       /\ fs' = r.w.fs
       /\ last' = Call("status", self.service, FALSE, r)
       /\ inflight' = [inflight EXCEPT ![j].pc = "done"]
       /\ UNCHANGED trace

\* The other invocation runs its stop_service while the up waits.
OtherStop(j, exiting) ==
    LET self == inflight[j]
        r == stop_service(World(system, fs), self.service, self.force, exiting)
    IN /\ self.op = "stop" /\ self.pc = "issued"
       /\ inflight[Upper].pc \in WaitPcs
       /\ system' = r.w.system
       /\ fs' = r.w.fs
       /\ last' = Call("stop", self.service, self.force, r)
       /\ inflight' = [inflight EXCEPT ![j].pc = "done"]
       /\ UNCHANGED trace

NextUp ==
    \/ \E new_pid \in {0} \cup FreePids : UpStartService(Upper, new_pid)
    \/ WaitWhile(Upper)
    \/ WaitIsProcessAlive(Upper)
    \/ \E dt \in 0..ProbeTimeout : WaitProbe(Upper, dt)
    \/ \E dt \in PollingInterval..(PollingInterval + 1) : WaitSleep(Upper, dt)
    \/ \E found \in is_running_by_signature(system, inflight[Other].service) :
          OtherStatus(Other, found)
    \/ \E exiting \in SUBSET MatchingPids(system, inflight[Other].service) :
          OtherStop(Other, exiting)
    \/ EndpointChanges(Upper)
    \/ \E pid \in Pids : inflight[Upper].pc \in WaitPcs /\ ProcessExits(pid)

SpecUp == InitUp /\ [][NextUp]_vars

(***************************************************************************)
(* An up on its own, and the calls that follow it.  inflight[1] is the     *)
(* invocation of up, trace holds its operations; once the up has returned  *)
(* the error of a wait that timed out, a status and a start of the         *)
(* service follow.                                                         *)
(***************************************************************************)
InitTimeout ==
    /\ \E d \in Descriptors :
       \E began \in {None, Some(1)},
          proc \in {NoProc} \cup {Proc(d.command, d.command[1], o) : o \in BOOLEAN},
          timeout \in startup_timeout_secs, ready \in BOOLEAN :
          /\ system = [pid \in Pids |-> IF pid = 1 THEN proc ELSE NoProc]
          /\ fs = [path \in PathsOf(d.name) |->
                      IF path = d.pid_filename /\ began.tag = "Some"
                      THEN File(to_string(began.val) \o <<"\n">>) ELSE NoFile]
          /\ inflight = <<Up(d, timeout, ready)>>
    /\ last = NoCall
    /\ trace = <<>>

\* The up has returned the error of a wait that timed out.
TimedOutUp ==
    /\ inflight[Upper].pc = "done"
    /\ inflight[Upper].result = TimedOut(inflight[Upper].service.name)

NextTimeout ==
    \/ \E new_pid \in {0} \cup FreePids : UpStartService(Upper, new_pid)
    \/ WaitWhile(Upper)
    \/ WaitIsProcessAlive(Upper)
    \/ \E dt \in 0..ProbeTimeout : WaitProbe(Upper, dt)
    \/ \E dt \in PollingInterval..(PollingInterval + 1) : WaitSleep(Upper, dt)
    \/ EndpointChanges(Upper)
    \/ \E pid \in Pids : (inflight[Upper].pc \in WaitPcs \/ TimedOutUp) /\ ProcessExits(pid)
    \/ \E found \in is_running_by_signature(system, inflight[Upper].service) :
          TimedOutUp /\ Status(inflight[Upper].service, found)
    \/ \E new_pid \in {0} \cup FreePids :
          TimedOutUp /\ Start(inflight[Upper].service, new_pid)

SpecTimeout == InitTimeout /\ [][NextTimeout]_vars

(***************************************************************************)
(* Commands of the tool while the model named in the config file changes:  *)
(* each command loads the config file with one of two model names and the  *)
(* default host and port.                                                  *)
(***************************************************************************)
\* A second model name.
ModelN == <<"n">>

ModelConfigs ==
    {[DefaultConfig EXCEPT !.mlx_server.model = model] : model \in {ModelM, ModelN}}

NextModel ==
    \/ \E t \in ServiceTypes, cfg \in ModelConfigs, new_pid \in {0} \cup FreePids :
          handle_up(t, cfg, new_pid) /\ UNCHANGED trace
    \/ \E t \in ServiceTypes, cfg \in ModelConfigs, force \in BOOLEAN :
          handle_down(t, cfg, force) /\ UNCHANGED trace
    \/ \E t \in ServiceTypes, cfg \in ModelConfigs :
          handle_ps_single(t, cfg) /\ UNCHANGED trace
    \/ \E pid \in Pids : ProcessExits(pid)

SpecModel == Init /\ [][NextModel]_vars

(***************************************************************************)
(* Properties.                                                             *)
(***************************************************************************)
\* A PID record is a PID file that holds a pid.
HasPid(files, service) == read_pid(files, service).tag = "Some"

PidFileExists(files, service) == files[service.pid_filename].exists

HasConfig(files, service) == files[service.config_filename].exists

Kinds(call) == {call.events[i].ev : i \in 1..Len(call.events)}

\* The pids the call delivered a signal to.
Killed(call) == {call.events[i].pid : i \in {j \in 1..Len(call.events) :
                                                call.events[j].ev = "kill"}}

\* The driver's signal call of a stop delivered its signal.
SignalDelivered(call) ==
    \E i \in 1..(Len(call.events) - 1) :
        call.events[i].ev = "signal" /\ call.events[i + 1].ev = "kill"

\* The values carried by the call's events of one kind.
EventPids(call, kind) ==
    {call.events[i].pid : i \in {j \in 1..Len(call.events) : call.events[j].ev = kind}}

\* The number of the call's events of one kind.
EventCount(call, kind) ==
    Cardinality({j \in 1..Len(call.events) : call.events[j].ev = kind})

\* Every event of kind a comes before every event of kind b.
Precedes(call, a, b) ==
    \A i, j \in 1..Len(call.events) :
        (call.events[i].ev = a /\ call.events[j].ev = b) => i < j

\* The live process pid has a command line that contains the signature.
LiveMatch(sys, service, pid) ==
    /\ pid \in DOMAIN sys
    /\ sys[pid].live
    /\ contains(process_signature(sys[pid]), join(service.command))

\* C1: after every completed start_service, stop_service or status_service
\* call the PID record of the service exists if and only if its
\* runtime-config record exists.
C1_RecordsTogether ==
    (last.op \in {"start", "stop", "status"} /\ IsOk(last.result))
        => (HasPid(fs, last.service) <=> HasConfig(fs, last.service))

\* C2 as claimed: two consecutive stop_service calls both return Ok and
\* the second returns NotRunning.
C2_StopTwice ==
    [][(last.op = "stop" /\ last'.op = "stop" /\ last'.follows = "stop")
          => (IsOk(last.result) /\ last'.result = NotRunning)]_vars

\* C2 as amended: a stop_service call returns Ok exactly when the PID file
\* is absent, blank or a number; a stop_service call that directly follows
\* a stop_service call that returned Ok returns Ok and never Stopped: it
\* returns NotRunning if no live process matches the signature any more,
\* and NotRunning or TerminatedByName otherwise.
C2_StopTwiceAmended ==
    [][(last'.op = "stop")
          => /\ IsOk(last'.result) <=> (read_pid(fs, last'.service).tag # "Err")
             /\ (last.op = "stop" /\ last'.follows = "stop" /\ IsOk(last.result))
                  => /\ IsOk(last'.result)
                     /\ last'.result.tag \in {"NotRunning", "TerminatedByName"}
                     /\ (MatchingPids(system, last'.service) = {}
                           => last'.result = NotRunning)]_vars

\* A second stop_service in a row that swept a process still live.
C2_Witness ==
    /\ last.op = "stop"
    /\ last.follows = "stop"
    /\ last.result.tag = "TerminatedByName"

\* C3: status_service directly after a start_service that returned
\* Started{pid} or AlreadyRunning{pid}, on the same descriptor, returns
\* Running{pid} with the same pid.
C3_StartThenStatus ==
    [][(/\ last.op = "start"
        /\ last.result.tag \in {"Started", "AlreadyRunning"}
        /\ last'.op = "status"
        /\ last'.follows = "start")
          => last'.result = Running(last.result.pid)]_vars

\* A status_service that directly follows a start_service and found the
\* recorded pid running.
C3_Witness ==
    /\ last.op = "status"
    /\ last.follows = "start"
    /\ last.result.tag = "Running"
    /\ Kinds(last) = {"read_pid", "is_running"}
    /\ HasConfig(fs, last.service)

\* The PID file holds a pid that is_running reports as not running.
StaleRecord(sys, files, service) ==
    /\ read_pid(files, service).tag = "Some"
    /\ ~is_running(sys, service, read_pid(files, service).val)

\* C4 as claimed: given a PID record whose pid is_running reports as not
\* live, whatever else the process table holds, status_service returns
\* NotRunning and no PID record exists afterwards.
C4_StaleStatus ==
    [][(last'.op = "status" /\ StaleRecord(system, fs, last'.service))
          => (last'.result = NotRunning /\ ~PidFileExists(fs', last'.service))]_vars

\* C4 as amended: given such a PID record, status_service returns
\* NotRunning and leaves no PID record if no live process matches the
\* signature; if one does, it returns Running{q} for a live matching
\* process q and the PID record holds q.
C4_StaleStatusAmended ==
    [][(last'.op = "status" /\ StaleRecord(system, fs, last'.service))
          => /\ "remove_pid" \in Kinds(last')
             /\ (MatchingPids(system, last'.service) = {})
                  => (last'.result = NotRunning /\ ~PidFileExists(fs', last'.service))
             /\ (MatchingPids(system, last'.service) # {})
                  => /\ last'.result.tag = "Running"
                     /\ LiveMatch(system, last'.service, last'.result.pid)
                     /\ read_pid(fs', last'.service) = Some(last'.result.pid)]_vars

\* A status_service that purged a stale PID record and found no process.
C4_Witness ==
    /\ last.op = "status"
    /\ last.result = NotRunning
    /\ "remove_pid" \in Kinds(last)
    /\ ~PidFileExists(fs, last.service)

\* C5: given no PID record (no PID file, or a blank one) and a live process whose command line matches
\* the signature, status_service returns Running{pid} for a live matching
\* pid, and afterwards the PID record holds exactly that pid.
C5_Adoption ==
    [][(/\ last'.op = "status"
        /\ read_pid(fs, last'.service) = None
        /\ MatchingPids(system, last'.service) # {})
          => /\ last'.result.tag = "Running"
             /\ LiveMatch(system, last'.service, last'.result.pid)
             /\ fs'[last'.service.pid_filename]
                  = File(to_string(last'.result.pid) \o <<"\n">>)
             /\ read_pid(fs', last'.service) = Some(last'.result.pid)]_vars

\* A status_service that found no record, probed by signature and adopted.
C5_Witness ==
    /\ last.op = "status"
    /\ last.result.tag = "Running"
    /\ Kinds(last) = {"read_pid", "is_running_by_signature", "write_pid"}
    /\ read_pid(fs, last.service) = Some(last.result.pid)

\* The PID file holds a pid that is_running confirms.
LiveRecord(sys, files, service) ==
    /\ read_pid(files, service).tag = "Some"
    /\ LiveMatch(sys, service, read_pid(files, service).val)

\* C6: when the PID record names a live matching process, start_service
\* returns AlreadyRunning with the recorded pid and changes nothing: no
\* spawn, no log truncation, files and process table as before.
C6_AlreadyRunningFrame ==
    [][(last'.op = "start" /\ LiveRecord(system, fs, last'.service))
          => /\ last'.result = AlreadyRunning(read_pid(fs, last'.service).val)
             /\ fs' = fs
             /\ system' = system
             /\ Kinds(last') = {"read_pid", "is_running"}]_vars

\* A start_service that reported AlreadyRunning while the log had content.
C6_Witness ==
    /\ last.op = "start"
    /\ last.result.tag = "AlreadyRunning"
    /\ Len(fs[last.service.log_filename].data) > 0

\* C7 as claimed: when the PID record names a live matching process,
\* stop_service returns Stopped{pid, forced} with the recorded pid whether
\* or not the signal was delivered.
C7_StoppedRegardless ==
    [][(last'.op = "stop" /\ LiveRecord(system, fs, last'.service))
          => last'.result = Stopped(read_pid(fs, last'.service).val, last'.force)]_vars

\* C7 as amended: in that case stop_service returns Stopped{pid, forced}
\* with the recorded pid if the signal was delivered; if it was not, it
\* sweeps by signature and returns TerminatedByName or NotRunning; the
\* records are purged in both cases.
C7_StoppedIfDelivered ==
    [][(last'.op = "stop" /\ LiveRecord(system, fs, last'.service))
          => /\ "signal" \in Kinds(last')
             /\ SignalDelivered(last')
                  => last'.result = Stopped(read_pid(fs, last'.service).val, last'.force)
             /\ ~SignalDelivered(last')
                  => /\ "kill_by_signature" \in Kinds(last')
                     /\ last'.result.tag \in {"TerminatedByName", "NotRunning"}
             /\ ~PidFileExists(fs', last'.service)
             /\ ~HasConfig(fs', last'.service)]_vars

\* A stop_service whose signal to the recorded pid was not delivered.
C7_Witness ==
    /\ last.op = "stop"
    /\ "signal" \in Kinds(last)
    /\ ~SignalDelivered(last)
    /\ last.result = NotRunning

\* C8: after stop_service returns Ok neither the PID record nor the
\* runtime-config record of the service exists.
C8_StopPurges ==
    (last.op = "stop" /\ IsOk(last.result))
        => (~HasPid(fs, last.service) /\ ~HasConfig(fs, last.service))

\* The PID file holds the pid of a live process whose command line does
\* not contain the signature.
ReusedPid(sys, files, service) ==
    /\ read_pid(files, service).tag = "Some"
    /\ read_pid(files, service).val \in DOMAIN sys
    /\ sys[read_pid(files, service).val].live
    /\ ~LiveMatch(sys, service, read_pid(files, service).val)

\* C9: a PID record whose pid belongs to a live process with another
\* command line is treated as not running: no operation reports that pid
\* as Running, AlreadyRunning or Stopped, none signals it, and each
\* removes the PID record.
C9_ReusedPidNotRunning ==
    [][(last'.op \in {"start", "stop", "status"} /\ ReusedPid(system, fs, last'.service))
          => LET pid == read_pid(fs, last'.service).val
             IN /\ ~(/\ last'.result.tag \in {"Running", "AlreadyRunning", "Stopped"}
                     /\ last'.result.pid = pid)
                /\ pid \notin Killed(last')
                /\ system'[pid] = system[pid]
                /\ "remove_pid" \in Kinds(last')
                /\ read_pid(fs', last'.service) # Some(pid)]_vars

\* A call that checked a recorded pid whose process is live under another
\* command line, and removed the record.
C9_Witness ==
    /\ last.op \in {"start", "stop", "status"}
    /\ "remove_pid" \in Kinds(last)
    /\ \E i \in 1..Len(last.events) :
          /\ last.events[i].ev = "is_running"
          /\ last.events[i].pid \in DOMAIN system
          /\ system[last.events[i].pid].live
          /\ ~LiveMatch(system, last.service, last.events[i].pid)

\* C10: no call delivers a signal to a process whose command line does not
\* contain the descriptor's signature, and signal(pid) returns false and
\* signals nothing when the pid is absent or mismatched.
C10_OnlyMatchingSignaled ==
    [][(last'.op # "none")
          => /\ \A pid \in Killed(last') : LiveMatch(system, last'.service, pid)
             /\ (last'.op = "signal" /\ ~LiveMatch(system, last'.service, last'.result.pid))
                  => /\ last'.result.tag = "NotDelivered"
                     /\ Killed(last') = {}
                     /\ system' = system]_vars

\* A direct signal call on a live process with another command line.
C10_Witness ==
    /\ last.op = "signal"
    /\ last.result.tag = "NotDelivered"
    /\ last.result.pid \in DOMAIN system
    /\ system[last.result.pid].live
    /\ ~LiveMatch(system, last.service, last.result.pid)

\* C11: start_service called with a PID record whose pid is not live or
\* does not match removes the record and spawns; when the spawn returns a
\* pid it returns Started{pid} for that new process, the PID record holds
\* the new pid and the runtime-config record holds the descriptor's host
\* and port.  (A spawn the OS refuses is the only other outcome, an error.)
C11_StaleStartRespawns ==
    [][(last'.op = "start" /\ StaleRecord(system, fs, last'.service))
          => /\ "remove_pid" \in Kinds(last')
             /\ EventCount(last', "spawn") = 1
             /\ Precedes(last', "remove_pid", "spawn")
             /\ last'.result.tag \in {"Started", "ProcessError"}
             /\ (last'.result.tag = "ProcessError") <=> (EventPids(last', "spawn") = {0})
             /\ (last'.result.tag = "Started")
                  => LET pid == last'.result.pid
                     IN /\ EventPids(last', "spawn") = {pid}
                        /\ ~system[pid].live
                        /\ system'[pid].live
                        /\ system'[pid].cmd = last'.service.command
                        /\ read_pid(fs', last'.service) = Some(pid)
                        /\ read_config(fs', last'.service)
                             = Some([host |-> last'.service.host,
                                     port |-> last'.service.port])]_vars

\* A start_service that purged a stale PID record and spawned.
C11_Witness ==
    /\ last.op = "start"
    /\ last.result.tag = "Started"
    /\ "remove_pid" \in Kinds(last)
    /\ system[last.result.pid].live

\* C12: when stop_service finds no PID record or a stale one it sweeps by
\* signature and the count of signaled processes alone decides the
\* outcome: TerminatedByName{count, forced = force} for count >= 1,
\* NotRunning for count = 0; TerminatedByName never carries count 0.
C12_SweepOutcome ==
    [][(last'.op = "stop")
          => /\ (last'.result.tag = "TerminatedByName") => (last'.result.count >= 1)
             /\ (read_pid(fs, last'.service) = None \/ StaleRecord(system, fs, last'.service))
                  => /\ EventCount(last', "kill_by_signature") = 1
                     /\ "signal" \notin Kinds(last')
                     /\ Killed(last') = {pid \in MatchingPids(system, last'.service) :
                                            system[pid].owned}
                     /\ last'.result =
                          IF Killed(last') = {} THEN NotRunning
                          ELSE TerminatedByName(Cardinality(Killed(last')), last'.force)]_vars

\* A stop_service that purged a stale PID record and swept a process.
C12_Witness ==
    /\ last.op = "stop"
    /\ "remove_pid" \in Kinds(last)
    /\ "signal" \notin Kinds(last)
    /\ last.result.tag = "TerminatedByName"

\* C13: stopping a service whose recorded instance is live signals the
\* recorded pid gracefully when force is false and with a kill when force
\* is true, never the other kind; once the signal is delivered the outcome
\* is Stopped{pid, forced = force} and the PID record is removed.
C13_ForceSelectsSignal ==
    [][(last'.op = "stop" /\ LiveRecord(system, fs, last'.service))
          => LET pid == read_pid(fs, last'.service).val
             IN /\ \E i \in 1..Len(last'.events) :
                      last'.events[i] = Ev("signal", pid, last'.force)
                /\ \A i \in 1..Len(last'.events) :
                      last'.events[i].ev \in {"signal", "kill", "kill_by_signature"}
                          => last'.events[i].force = last'.force
                /\ SignalDelivered(last')
                     => /\ \E i \in 1..Len(last'.events) :
                              last'.events[i] = Ev("kill", pid, last'.force)
                        /\ last'.result = Stopped(pid, last'.force)
                        /\ ~PidFileExists(fs', last'.service)]_vars

\* A forced stop_service whose kill signal reached the recorded pid.
C13_Witness ==
    /\ last.op = "stop"
    /\ last.force
    /\ last.result.tag = "Stopped"
    /\ \E i \in 1..Len(last.events) : last.events[i] = Ev("kill", last.result.pid, TRUE)

\* The calls of the scenario start, status, stop, status.
ScenarioOps == <<"start", "status", "stop", "status">>

\* The first calls of the trace are the first calls of the scenario.
FollowsScenario(t) ==
    \A i \in 1..Len(t) : i <= Len(ScenarioOps) => t[i].op = ScenarioOps[i]

\* C14: starting from no records and no matching process, under a driver
\* whose spawned process stays live until signaled and is gone once
\* signaled, the calls start, status, stop(force), status return
\* Started{p}, Running{p}, Stopped{p, forced = force}, NotRunning for one
\* pid p, for both services and both force values.
C14_Scenario ==
    (Len(trace) >= 1 /\ FollowsScenario(trace))
        => LET p == trace[1].result.pid
           IN /\ trace[1].result = Started(p)
              /\ p \in Pids
              /\ Len(trace) >= 2 => trace[2].result = Running(p)
              /\ Len(trace) >= 3 => trace[3].result = Stopped(p, trace[3].force)
              /\ Len(trace) >= 4 => trace[4].result = NotRunning

\* The whole scenario, run for mlx with a forced stop.
C14_Witness ==
    /\ Len(trace) = 4
    /\ FollowsScenario(trace)
    /\ trace[3].force
    /\ last.service.name = "mlx"
    /\ trace[4].result = NotRunning

\* C15: stop_service called with no PID record and no live process that
\* matches the signature returns Ok(NotRunning) for either force value,
\* after a signature sweep that signals nothing.
C15_StopNothingRunning ==
    [][(/\ last'.op = "stop"
        /\ read_pid(fs, last'.service) = None
        /\ MatchingPids(system, last'.service) = {})
          => /\ last'.result = NotRunning
             /\ last'.events = <<Ev("read_pid", 0, FALSE),
                                 Ev("kill_by_signature", 0, last'.force)>>
             /\ system' = system
             /\ fs' = fs]_vars

\* A forced stop_service with nothing recorded and nothing running.
C15_Witness ==
    /\ last.op = "stop"
    /\ last.force
    /\ last.result = NotRunning
    /\ Kinds(last) = {"read_pid", "kill_by_signature"}
    /\ \A pid \in Pids : ~system[pid].live

\* C16: the log file is truncated only by start_service, exactly once per
\* spawn and before it, and never while a process that matches the
\* signature of the service is live.
C16_LogTruncation ==
    [][/\ \A d \in Supervised :
             Len(fs'[d.log_filename].data) < Len(fs[d.log_filename].data)
                 => /\ last'.op = "start"
                    /\ last'.service = d
                    /\ "reset_log_file" \in Kinds(last')
       /\ ("reset_log_file" \in Kinds(last') \/ "spawn" \in Kinds(last'))
             => /\ last'.op = "start"
                /\ EventCount(last', "reset_log_file") = 1
                /\ EventCount(last', "spawn") = 1
                /\ Precedes(last', "reset_log_file", "spawn")
       /\ "reset_log_file" \in Kinds(last')
             => MatchingPids(system, last'.service) = {}]_vars

\* C17: from any state in which the PID file is absent, blank or holds a
\* number, status_service returns Running{pid} if and only if some live
\* process matches the signature; the reported pid is a live matching
\* process; afterwards a PID record exists if and only if the outcome is
\* Running, and then it holds the reported pid.
C17_StatusRevalidates ==
    [][(last'.op = "status" /\ read_pid(fs, last'.service).tag # "Err")
          => /\ last'.result.tag \in {"Running", "NotRunning"}
             /\ (last'.result.tag = "Running") <=> (MatchingPids(system, last'.service) # {})
             /\ (last'.result.tag = "Running")
                  => /\ LiveMatch(system, last'.service, last'.result.pid)
                     /\ read_pid(fs', last'.service) = Some(last'.result.pid)
             /\ (last'.result.tag = "NotRunning")
                  => /\ ~HasPid(fs', last'.service)
                     /\ (HasPid(fs, last'.service) \/ ~PidFileExists(fs, last'.service))
                          => ~PidFileExists(fs', last'.service)]_vars

\* A status_service that found the recorded pid stale, probed by signature
\* and recorded the process it found.
C17_Witness ==
    /\ last.op = "status"
    /\ last.result.tag = "Running"
    /\ {"is_running", "remove_pid", "write_pid"} \subseteq Kinds(last)
    /\ read_pid(fs, last.service) = Some(last.result.pid)

\* Two start invocations that began with no PID record have returned.
BothStartsDone ==
    /\ inflight # <<>>
    /\ \A i \in DOMAIN inflight :
          /\ inflight[i].op = "start"
          /\ inflight[i].began = None
          /\ inflight[i].pc = "done"

\* The invocations whose spawn returned a pid.
Spawners == {i \in DOMAIN inflight : inflight[i].pid # 0}

\* C18 as claimed: for every interleaving of the steps of two concurrent
\* start invocations of one service, beginning with no PID record and no
\* live matching process, the driver spawns exactly one process.
C18_SpawnsOnce ==
    BothStartsDone => Cardinality(Spawners) = 1

\* C18 as amended: an invocation that reads the PID file after the other
\* has written its PID record returns AlreadyRunning with the other's pid
\* and spawns nothing, so one process is spawned; an invocation that reads
\* it earlier spawns, so two processes are spawned, both stay live, and
\* the PID record holds only the pid written last.
C18_SpawnsOnceIfSerialized ==
    BothStartsDone
        => /\ \A i \in DOMAIN inflight :
                 IF inflight[i].after_write
                 THEN /\ inflight[i].pid = 0
                      /\ inflight[i].result.tag = "AlreadyRunning"
                      /\ \E j \in Spawners : inflight[i].result.pid = inflight[j].pid
                 ELSE inflight[i].result = Started(inflight[i].pid)
           /\ Cardinality(Spawners) \in {1, 2}
           /\ (Cardinality(Spawners) = 1)
                 <=> (\E i \in DOMAIN inflight : inflight[i].after_write)
           /\ \A i \in Spawners :
                 LiveMatch(system, inflight[i].service, inflight[i].pid)
           /\ \E i \in Spawners :
                 read_pid(fs, inflight[i].service) = Some(inflight[i].pid)

\* Two concurrent start invocations that both spawned.
C18_Witness ==
    /\ BothStartsDone
    /\ Cardinality(Spawners) = 2
    /\ Cardinality({pid \in Pids : system[pid].live
                                     /\ system[pid].cmd = inflight[1].service.command}) = 2

\* The configurations from which service_for_up builds the descriptor.
ConfigsFor(service) == {cfg \in Configs : service_for_up(cfg, service.name) = service}

\* The PID record names a live process that matches the descriptor rebuilt
\* from the runtime-config record.
RecordedInstanceLive(sys, files, service_type, cfg) ==
    LET sv == service_for_runtime(files, cfg, service_type)
    IN /\ sv.tag = "Ok"
       /\ read_config(files, sv.val).tag = "Some"
       /\ LiveRecord(sys, files, sv.val)

\* C19: an up command issued while the recorded instance is live reports
\* already-running and spawns no second process, whatever host and port
\* the config file holds by then.
C19_UpKeepsInstance ==
    [][(/\ last'.op = "up"
        /\ \E cfg \in ConfigsFor(last'.service) :
              RecordedInstanceLive(system, fs, last'.service.name, cfg))
          => /\ last'.result = AlreadyRunning(read_pid(fs, last'.service).val)
             /\ "spawn" \notin Kinds(last')
             /\ system' = system]_vars

\* C20: for down, ps and logs the descriptor's host and port, the mlx
\* --host and --port arguments and the ollama OLLAMA_HOST value are those
\* of the runtime-config record when one exists, so that a live recorded
\* process passes the signature check; without a record they are those of
\* the config file.
C20_RuntimeDescriptor ==
    [][(last'.op \in {"down", "ps", "logs"} /\ IsOk(last'.result))
          => \A d \in {last'.service} : \A rc \in {read_config(fs, d)} :
                /\ rc.tag = "None"
                     => \E cfg \in Configs : d = service_for_up(cfg, d.name)
                /\ rc.tag = "Some"
                     => /\ d.host = rc.val.host
                        /\ d.port = rc.val.port
                        /\ d.name = "ollama"
                             => /\ d.env = format_host_port(rc.val.host, rc.val.port)
                                /\ d = [create_ollama_service(rc.val) EXCEPT !.env = d.env]
                        /\ d.name = "mlx"
                             => d = create_mlx_service([host |-> rc.val.host,
                                                        port |-> rc.val.port,
                                                        model |-> ModelM])
                        /\ (/\ HasPid(fs, d)
                            /\ read_pid(fs, d).val \in LivePids)
                             => is_running(system, d, read_pid(fs, d).val)]_vars

\* A down that found the instance although the config file names another
\* port than the one the instance was started with.
C20_Witness ==
    /\ last.op = "down"
    /\ last.service.name = "mlx"
    /\ last.result.tag = "Stopped"
    /\ last.service.port = OtherPort
    /\ last.follows = "none"

Final(t) == IF Len(t) = 0 THEN "" ELSE t[Len(t)]

WaitDone == inflight[1].op = "wait" /\ inflight[1].pc = "done"

\* C21: wait_until_ready always terminates, whatever the process and the
\* prober do, and in one of three ways: Ok directly after a successful
\* probe, a ProcessError for a process that died, found by the liveness
\* check, or a ProcessError for a timeout once the elapsed time has
\* reached the configured timeout; with timeout 0 it times out without any
\* liveness check or probe.
C21_WaitTerminates ==
    /\ <>WaitDone
    /\ [](WaitDone =>
            LET self == inflight[1]
            IN /\ \/ /\ self.result = WaitReady
                     /\ Final(trace) = "probe_ok"
                  \/ /\ self.result = ProcessDied(self.service.name)
                     /\ Final(trace) = "is_process_alive"
                     /\ ~is_process_alive(system, self.service, self.pid)
                  \/ /\ self.result = TimedOut(self.service.name)
                     /\ self.elapsed >= self.timeout
                     /\ Final(trace) \in {"", "sleep"}
               /\ self.timeout = 0
                    => self.result = TimedOut(self.service.name) /\ trace = <<>>)

\* A wait that timed out after polling the process and the endpoint.
C21_Witness ==
    /\ WaitDone
    /\ inflight[1].result = TimedOut(inflight[1].service.name)
    /\ inflight[1].timeout >= 2
    /\ Final(trace) = "sleep"

\* C22: in every polling tick the liveness check comes before the probe: a
\* probe is only issued directly after a liveness check, a failed probe
\* leaves the loop running (sleep, then the next tick), and a liveness
\* check that finds the process dead ends the wait with a ProcessError at
\* once, with no probe after it, whether or not the endpoint would answer.
C22_LivenessBeforeProbe ==
    [][inflight[1].op = "wait" =>
         LET self == inflight[1]
             after == inflight'[1]
             made == IF trace' # trace THEN Final(trace') ELSE ""
         IN /\ made \in {"probe_ok", "probe_err"}
                 => Final(trace) = "is_process_alive"
            /\ made = "probe_err" => after.pc = "sleep"
            /\ made = "sleep" => after.pc = "while" /\ Final(trace) = "probe_err"
            /\ (made = "is_process_alive"
                  /\ ~is_process_alive(system, self.service, self.pid))
                 => /\ after.pc = "done"
                    /\ after.result = ProcessDied(self.service.name)
            /\ self.pc = "done" => trace' = trace]_vars

\* The process was found dead in a later tick while the endpoint answers.
C22_Witness ==
    /\ WaitDone
    /\ inflight[1].result = ProcessDied(inflight[1].service.name)
    /\ inflight[1].ready
    /\ Len(trace) >= 4

\* The PID file holds non-blank content that is not an i32.
MalformedPid(files, service) ==
    LET f == files[service.pid_filename]
    IN /\ f.exists
       /\ Len(trim(f.data)) > 0
       /\ parse_i32(trim(f.data)).tag = "Err"

\* C23: when the PID file holds non-empty content that does not parse as
\* an i32, start_service, stop_service and status_service each return a
\* ProcessError tagged with the service name and do nothing else: the
\* only operation is the read of the PID file, and files and processes
\* are unchanged.
C23_MalformedPid ==
    [][(/\ last'.op \in {"start", "stop", "status"}
        /\ MalformedPid(fs, last'.service))
          => /\ last'.result = ProcessError(last'.service.name)
             /\ Kinds(last') = {"read_pid"}
             /\ fs' = fs
             /\ system' = system]_vars

\* A stop that met a malformed PID file next to a runtime-config record
\* while the instance was live.
C23_Witness ==
    /\ last.op = "stop"
    /\ last.result = ProcessError(last.service.name)
    /\ MalformedPid(fs, last.service)
    /\ HasConfig(fs, last.service)
    /\ MatchingPids(system, last.service) # {}

\* The pids the spawn calls of the call returned; 0 stands for a spawn
\* that failed.
SpawnFailed(call) == 0 \in EventPids(call, "spawn")

\* C24: if the driver's spawn fails, start_service returns that error and
\* writes neither a PID record nor a runtime-config record; records are
\* written only after a spawn has returned a pid, the PID record first
\* and the runtime-config record second.
C24_RecordsAfterSpawn ==
    [][last'.op = "start" =>
         LET d == last'.service
         IN /\ SpawnFailed(last')
                 => /\ last'.result = ProcessError(d.name)
                    /\ Kinds(last') \cap {"write_pid", "write_config"} = {}
                    /\ ~HasPid(fs', d)
                    /\ fs'[d.pid_filename] \in {fs[d.pid_filename], NoFile}
                    /\ fs'[d.config_filename] = fs[d.config_filename]
            /\ Kinds(last') \cap {"write_pid", "write_config"} # {}
                 => /\ EventCount(last', "spawn") = 1
                    /\ ~SpawnFailed(last')
                    /\ EventPids(last', "write_pid") = EventPids(last', "spawn")
                    /\ EventCount(last', "write_pid") = 1
                    /\ EventCount(last', "write_config") = 1
                    /\ Precedes(last', "spawn", "write_pid")
                    /\ Precedes(last', "write_pid", "write_config")]_vars

\* A start whose spawn failed after it had removed a stale PID record.
C24_Witness ==
    /\ last.op = "start"
    /\ SpawnFailed(last)
    /\ "remove_pid" \in Kinds(last)
    /\ last.result = ProcessError(last.service.name)

\* The key=value lines of a runtime-config file.
Entries(data) ==
    {e \in {config_entry(lines(data)[k]) : k \in 1..Len(lines(data))} : e.found}

HasKey(data, key) == \E e \in Entries(data) : e.key = key

BadPort(data) ==
    \E e \in Entries(data) :
        e.key = <<"p","o","r","t">> /\ parse_u16(e.value).tag = "Err"

LacksKey(data) ==
    ~HasKey(data, <<"h","o","s","t">>) \/ ~HasKey(data, <<"p","o","r","t">>)

Written(service) == Some([host |-> service.host, port |-> service.port])

SameFiles(a, b) == a.config_filename = b.config_filename

\* A host that a line of the record holds as it is.
PlainHost(host) == trim(host) = host /\ \A i \in 1..Len(host) : host[i] # "\n"

\* C25: write_config followed by read_config for the same service returns
\* exactly the written (host, port) pair, for every host and every u16
\* port; read_config with no file returns None, a file missing the host or
\* the port key returns None, and a port value that does not parse as u16
\* returns a ProcessError.
C25_ConfigRoundTrip ==
    [][last'.op = "read_config" =>
         LET f == fs[last'.service.config_filename]
         IN /\ (last.op = "write_config" /\ SameFiles(last.service, last'.service))
                 => last'.result = Written(last.service)
            /\ ~f.exists => last'.result = NoConfig
            /\ (f.exists /\ LacksKey(f.data)) => last'.result = NoConfig
            /\ (f.exists /\ BadPort(f.data)) => last'.result = ConfigErr]_vars

\* C25 (amended): the round trip returns the written pair for every u16
\* port and every host that has no whitespace at its ends and no line
\* feed; read_config returns a ProcessError when a port line holds a value
\* that is not a u16, and otherwise None when there is no file or no host
\* line or no port line.
C25_ConfigRoundTripAmended ==
    [][last'.op = "read_config" =>
         LET f == fs[last'.service.config_filename]
         IN /\ (/\ last.op = "write_config"
                /\ SameFiles(last.service, last'.service)
                /\ PlainHost(last.service.host))
                 => last'.result = Written(last.service)
            /\ ~f.exists => last'.result = NoConfig
            /\ (f.exists /\ BadPort(f.data)) => last'.result = ConfigErr
            /\ (f.exists /\ ~BadPort(f.data) /\ LacksKey(f.data))
                 => last'.result = NoConfig
            /\ fs' = fs]_vars

\* A record with a host that holds '=' and the largest port was read back.
C25_Witness ==
    /\ last.op = "read_config"
    /\ last.result = Some([host |-> <<"a", "=", "b">>, port |-> U16Max])
    /\ last.follows = "none"

\* C26: write_pid(p) followed by read_pid on the same service returns
\* Some(p) for every i32 p, whatever record the file held before the
\* write; read_pid with no PID file returns None and not an error.
C26_PidRoundTrip ==
    [][/\ last'.op = "write_pid"
            => \A p \in EventPids(last', "write_pid") :
                   read_pid(fs', last'.service) = Some(p)
       /\ last'.op = "read_pid"
            => /\ (last.op = "write_pid" /\ last.service = last'.service)
                    => \A p \in EventPids(last, "write_pid") :
                           last'.result = Some(p)
               /\ ~PidFileExists(fs, last'.service) => last'.result = None
               /\ fs' = fs]_vars

\* The smallest i32 was read back directly after it was written.
C26_Witness ==
    /\ last.op = "read_pid"
    /\ last.follows = "write_pid"
    /\ last.result = Some(I32Min)

\* C27: remove_pid and remove_config return Ok whether or not their file
\* is there and leave it absent, so a second call in a row returns Ok
\* again and changes nothing; neither touches the other record.
C27_RemoveIdempotent ==
    [][last'.op \in {"remove_pid", "remove_config"} =>
         LET d == last'.service
             own == IF last'.op = "remove_pid" THEN d.pid_filename
                    ELSE d.config_filename
         IN /\ last'.result = OkUnit
            /\ fs'[own] = NoFile
            /\ \A path \in DOMAIN fs \ {own} : fs'[path] = fs[path]
            /\ (last.op = last'.op /\ last.service = d) => fs' = fs]_vars

\* remove_pid was called twice in a row while a runtime-config record
\* was there.
C27_Witness ==
    /\ last.op = "remove_pid"
    /\ last.follows = "remove_pid"
    /\ last.result = OkUnit
    /\ HasConfig(fs, last.service)

\* The files of the services other than name.
FilesOfOthers(name) == UNION {PathsOf(other) : other \in Services \ {name}}

\* The live processes that run the command of a service other than name.
ProcessesOfOthers(sys, name) ==
    {pid \in Pids : \E d \in Descriptors : d.name # name /\ is_running(sys, d, pid)}

\* The services a global ps went through, in order.
Queried(call) ==
    SelectSeq([i \in 1..Len(call.events) |-> call.events[i].ev],
              LAMBDA kind : kind \in Services)

OneServiceFrame ==
    last'.op \in {"up", "down", "ps"}
        => /\ \A path \in FilesOfOthers(last'.service.name) : fs'[path] = fs[path]
           /\ \A pid \in ProcessesOfOthers(system, last'.service.name) :
                  system'[pid] = system[pid]
           /\ Queried(last') = <<>>

Commands == {"up", "down", "ps", "logs"}

\* C29: the tool's process exits with status 1 exactly when the
\* dispatched command returned an error, after printing "Error: " and the
\* error to the error stream, and with status 0 and nothing printed
\* otherwise; a down that found nothing running exits with 0.
C29_ExitStatus ==
    [][last'.op \in Commands =>
         LET ended == trace'[1]
             failed == ended.returned.tag = "ProcessError"
         IN /\ Len(trace') = 1
            /\ ended.exit.status = (IF failed THEN 1 ELSE 0)
            /\ ended.exit.stderr = (IF failed THEN <<"Error: ", ended.returned>>
                                    ELSE <<>>)
            /\ last'.op # "up" => ended.returned = last'.result
            /\ last'.op = "up"
                 => /\ ~IsOk(last'.result) => ended.returned = last'.result
                    /\ IsOk(last'.result) => ended.returned \in WaitResults(last'.service.name)
            /\ (last'.op = "down" /\ MatchingPids(system, last'.service) = {}
                  /\ IsOk(last'.result))
                 => ended.exit.status = 0]_vars

\* A down that found nothing running has exited.
C29_Witness ==
    /\ last.op = "down"
    /\ last.result = NotRunning
    /\ Len(trace) = 1
    /\ trace[1].exit.status = 0

\* The value the writer writes, as a read returns it.
NewValue ==
    LET self == inflight[Writer]
    IN IF self.record = "pid" THEN Some(self.new_pid)
       ELSE Some([host |-> self.service.host, port |-> self.service.port])

NoValue == IF inflight[Reader].record = "pid" THEN None ELSE NoConfig

ReadDone == Len(inflight) = 2 /\ inflight[Reader].op = "read" /\ inflight[Reader].pc = "done"

\* The contents after "port=" has been written and before the port.
PortPending ==
    <<"h","o","s","t","=">> \o inflight[Writer].service.host \o <<"\n">>
        \o <<"p","o","r","t","=">>

SpawnedLive ==
    /\ inflight[Upper].started.tag = "Started"
    /\ is_running(system, inflight[Upper].service, inflight[Upper].pid)

Probes(t) == {k \in 1..Len(t) : t[k] \in {"probe_ok", "probe_err"}}

\* C31: start_service makes no readiness probe, and when the up's
\* start_service has spawned an instance the PID record and the
\* runtime-config record are written before the first step of the wait, so
\* every probe of the up follows both writes; a status (a stop) issued
\* while the up waits and the spawned instance is live returns Running
\* (Stopped) with the spawned pid.
C31_RecordsBeforePolling ==
    [][LET up == inflight'[Upper]
           d == up.service
       IN /\ (inflight[Upper].pc = "start_service" /\ up.pc = "while")
                => /\ Probes(trace') = {}
                   /\ up.started.tag = "Started"
                        => /\ read_pid(fs', d) = Some(up.pid)
                           /\ read_config(fs', d) = Some([host |-> d.host, port |-> d.port])
          /\ \A k \in Probes(trace') :
                up.started.tag = "Started"
                  => \E a, b \in 1..(k - 1) :
                        /\ a < b
                        /\ trace'[a] = "write_pid"
                        /\ trace'[b] = "write_config"
          /\ (inflight[Other].pc = "issued" /\ inflight'[Other].pc = "done" /\ SpawnedLive)
                => /\ inflight[Upper].pc \in WaitPcs
                   /\ last'.result = IF inflight[Other].op = "status"
                                     THEN Running(inflight[Upper].pid)
                                     ELSE Stopped(inflight[Upper].pid, inflight[Other].force)]_vars

\* A stop issued after the up had probed stopped the instance the up
\* spawned next to an instance started by hand.
C31_Witness ==
    /\ inflight[Upper].started.tag = "Started"
    /\ inflight[Upper].pid # 1
    /\ Probes(trace) # {}
    /\ inflight[Other].pc = "done"
    /\ last.op = "stop"
    /\ last.result = Stopped(inflight[Upper].pid, FALSE)
    /\ system[1].live

BothDone == \A i \in Invocations : inflight[i].pc = "done"

\* The process the start spawned is live.
SpawnedIsLive ==
    /\ inflight[Starter].pid # 0
    /\ system[inflight[Starter].pid].live

\* C32: once a start and a stop of the same service that ran at the same
\* time have both finished, a live process the start spawned has its PID
\* record unless the stop signaled it.
C32_RecordKept ==
    (BothDone /\ SpawnedIsLive)
      => \/ read_pid(fs, inflight[Starter].service) = Some(inflight[Starter].pid)
         \/ inflight[Starter].pid \in inflight[Stopper].signaled

\* C32 (amended): as C32, or the stop read the PID file before the start
\* wrote it, signaled the process recorded then, removed the PID file
\* after the start had written it and returned Stopped with the pid it had
\* read; the spawned process is then live, not signaled and without a PID
\* record.
C32_RecordKeptUnlessPurged ==
    (BothDone /\ SpawnedIsLive)
      => \/ read_pid(fs, inflight[Starter].service) = Some(inflight[Starter].pid)
         \/ inflight[Starter].pid \in inflight[Stopper].signaled
         \/ /\ inflight[Stopper].result
                  = Stopped(inflight[Stopper].r.val, inflight[Stopper].force)
            /\ ~inflight[Stopper].after_write
            /\ inflight[Stopper].purged = Some(inflight[Starter].pid)

\* The stop found a stale record, removed the PID file after the start
\* had written the pid of its child, and signaled the child in its sweep;
\* the child is still live.
C32_Witness ==
    /\ BothDone
    /\ SpawnedIsLive
    /\ inflight[Starter].result.tag = "Started"
    /\ inflight[Stopper].purged = Some(inflight[Starter].pid)
    /\ inflight[Stopper].result.tag = "TerminatedByName"
    /\ inflight[Starter].pid \in inflight[Stopper].signaled
    /\ ~HasPid(fs, inflight[Starter].service)

\* The live processes that run the command of the service.
Instances(sys, service) ==
    {pid \in DOMAIN sys : sys[pid].live /\ sys[pid].cmd = service.command}

\* C33: in a serial sequence of start, stop and status calls that begins
\* with no records and no matching process, at most one process spawned
\* for a service is live at any time, however long a signaled process
\* takes to exit.
C33_AtMostOneInstance ==
    \A d \in Supervised : Cardinality(Instances(system, d)) <= 1

\* The processes a call tried to signal: the pid given to the driver's
\* signal if it matched, and every matching process if the call swept by
\* signature.
SentTo(call, before) ==
    (EventPids(call, "signal") \cap MatchingPids(before, call.service))
      \cup (IF "kill_by_signature" \in Kinds(call)
            THEN MatchingPids(before, call.service) ELSE {})

\* The matching processes the user running the tool may signal.
OwnedMatching(sys, service) == {pid \in MatchingPids(sys, service) : sys[pid].owned}

\* C34: after stop_service returns Stopped or TerminatedByName, every
\* process that matched the signature when the call began has been sent a
\* signal by the call.
C34_AllMatchingSignaled ==
    [][(last'.op = "stop" /\ last'.result.tag \in {"Stopped", "TerminatedByName"})
         => MatchingPids(system, last'.service) \subseteq SentTo(last', system)]_vars

\* C34 (amended): a stop that returns TerminatedByName has swept by
\* signature, and its signal was delivered to exactly the matching
\* processes the user may signal, which are as many as it counts; a stop
\* that returns Stopped has signaled the recorded pid and no other process,
\* whatever else matched.
C34_SweepSignalsAllStoppedOne ==
    [][last'.op = "stop"
         => LET d == last'.service
            IN /\ last'.result.tag = "TerminatedByName"
                    => /\ "kill_by_signature" \in Kinds(last')
                       /\ Killed(last') = OwnedMatching(system, d)
                       /\ last'.result.count = Cardinality(OwnedMatching(system, d))
               /\ last'.result.tag = "Stopped"
                    => /\ "kill_by_signature" \notin Kinds(last')
                       /\ Killed(last') = {last'.result.pid}
                       /\ last'.result.pid \in OwnedMatching(system, d)
                       /\ read_pid(fs, d) = Some(last'.result.pid)]_vars

\* A stop returned Stopped for the recorded pid while another process
\* that matches the signature, and that the user may signal, stayed live
\* and unsignaled.
C34_Witness ==
    /\ last.op = "stop"
    /\ last.result.tag = "Stopped"
    /\ \E pid \in OwnedMatching(system, last.service) :
          /\ pid # last.result.pid
          /\ pid \notin Killed(last)

\* C35: when start_service returns an error, a write of the PID record or
\* of the runtime-config record that failed after the spawn included, a
\* process the call spawned and that is live when it returns has its PID
\* record.
C35_NoOrphanOnError ==
    [][(last'.op = "start" /\ ~IsOk(last'.result))
         => \A pid \in EventPids(last', "spawn") \ {0} :
               system'[pid].live => read_pid(fs', last'.service) = Some(pid)]_vars

\* The up ended because its wait timed out, and it had spawned its
\* instance.
UpTimedOut ==
    /\ TimedOutUp
    /\ inflight[Upper].started.tag = "Started"

\* C36: the step in which the wait of an up times out changes neither the
\* process table nor the files, and the up has sent no signal: the PID
\* record holds the spawned pid and the runtime-config record the
\* descriptor's host and port.  While the spawned process stays live, a
\* status that follows returns Running and a start that follows returns
\* AlreadyRunning, both with the spawned pid, and nothing is spawned.
C36_TimeoutKeepsInstance ==
    [][LET up == inflight[Upper]
           d == up.service
       IN /\ (up.pc = "while" /\ UpTimedOut')
                => /\ system' = system /\ fs' = fs
                   /\ \A k \in 1..Len(trace') :
                         /\ trace'[k] \notin {"signal", "kill", "kill_by_signature"}
                         /\ trace'[k] \in {"remove_pid", "remove_config"}
                              => \E j \in (k + 1)..Len(trace') : trace'[j] = "spawn"
                   /\ read_pid(fs', d) = Some(up.pid)
                   /\ read_config(fs', d) = Some([host |-> d.host, port |-> d.port])
          /\ (UpTimedOut /\ is_running(system, d, up.pid))
                => /\ last'.op = "status" => last'.result = Running(up.pid)
                   /\ last'.op = "start" => /\ last'.result = AlreadyRunning(up.pid)
                                            /\ "spawn" \notin Kinds(last')]_vars

\* After an up that probed and timed out, a start returned AlreadyRunning
\* with the spawned pid.
C36_Witness ==
    /\ UpTimedOut
    /\ Probes(trace) # {}
    /\ last.op = "start"
    /\ last.result = AlreadyRunning(inflight[Upper].pid)
    /\ system[inflight[Upper].pid].live

\* The records are those a successful mlx start with the configuration
\* wrote, and the process it spawned is live.
StartedLive(sys, files, cfg) ==
    LET service == create_mlx_service(cfg.mlx_server)
        r == read_pid(files, service)
    IN /\ service.pid_filename \in DOMAIN files
       /\ r.tag = "Some"
       /\ r.val \in DOMAIN sys
       /\ sys[r.val].live
       /\ sys[r.val].cmd = service.command
       /\ read_config(files, service)
             = Some([host |-> service.host, port |-> service.port])

\* C37: while the process of a successful mlx start is live and recorded,
\* a ps returns Running and a down returns Stopped, both with the started
\* pid, whatever model the config file names by then.
C37_ModelChangeKeepsInstance ==
    [][(/\ last'.op \in {"ps", "down"}
        /\ last'.service.name = "mlx"
        /\ \E cfg \in ModelConfigs : StartedLive(system, fs, cfg))
          => last'.result = IF last'.op = "ps"
                            THEN Running(read_pid(fs, last'.service).val)
                            ELSE Stopped(read_pid(fs, last'.service).val,
                                         last'.force)]_vars

\* The PID file exists and holds nothing but whitespace.
BlankPid(files, service) ==
    /\ files[service.pid_filename].exists
    /\ Len(trim(files[service.pid_filename].data)) = 0

\* What the call can do and return when the PID file is absent and all
\* else is as given.
AsAbsent(sys, files, call) ==
    LET d == call.service
        w == World(sys, [files EXCEPT ![d.pid_filename] = NoFile])
    IN IF call.op = "start"
       THEN {start_service(w, d, new_pid) :
                new_pid \in {0} \cup {pid \in DOMAIN sys : ~sys[pid].live}}
       ELSE IF call.op = "stop"
       THEN {stop_service(w, d, call.force, exiting) :
                exiting \in SUBSET MatchingPids(sys, d)}
       ELSE {status_service(w, d, found) : found \in is_running_by_signature(sys, d)}

\* C38: read_pid returns None for a PID file that exists and is empty or
\* holds only whitespace, and start_service, stop_service and
\* status_service then do and return what they do with no PID file: start
\* spawns, stop sweeps by signature, status probes by signature, no
\* liveness check or removal of the record is made, and no error is
\* returned other than that of a refused spawn.  The blank file is left in
\* place unless the call writes the PID record.
C38_BlankPidIsNoRecord ==
    [][LET d == last'.service
       IN (last'.op \in {"start", "stop", "status"} /\ BlankPid(fs, d))
            => /\ read_pid(fs, d) = None
               /\ IsOk(last'.result)
                    \/ (last'.op = "start" /\ 0 \in EventPids(last', "spawn"))
               /\ Kinds(last') \cap {"is_running", "remove_pid", "signal"} = {}
               /\ last'.op = "start" => "spawn" \in Kinds(last')
               /\ last'.op = "stop" => "kill_by_signature" \in Kinds(last')
               /\ last'.op = "status" => "is_running_by_signature" \in Kinds(last')
               /\ \E r \in AsAbsent(system, fs, last') :
                     /\ r.result = last'.result
                     /\ r.w.events = last'.events
                     /\ r.w.system = system'
                     /\ \A path \in DOMAIN fs' :
                           fs'[path] = IF path = d.pid_filename /\ ~r.w.fs[path].exists
                                       THEN fs[path] ELSE r.w.fs[path]]_vars

\* A stop found an empty PID file, swept by signature and signaled an
\* instance; the empty file is still there.
C38_Witness ==
    /\ last.op = "stop"
    /\ last.result.tag = "TerminatedByName"
    /\ fs[last.service.pid_filename] = File(<<>>)


====
